---- MODULE Spec2Model ----
(***************************************************************************)
(* A model of ConfigSpace's hyperparameter variants (hyperparameters.py)   *)
(* and of the Configuration record (configuration.py).                     *)
(*                                                                         *)
(* Python values are tagged records:                                       *)
(*   [k |-> "num", n, d]  the real number n/d (d > 0, lowest terms);       *)
(*                        int and float are not told apart                 *)
(*   [k |-> "ln",  n, d]  the real ln(n/d), n/d > 0 (np.log of a number)   *)
(*   [k |-> "exp", n, d]  the real exp(n/d) (np.exp of a plain number)     *)
(*   [k |-> "float", n, d]  the float n/d where a caller passes i.0 for i   *)
(*   [k |-> "str", s]     a string                                         *)
(*   [k |-> "None"], [k |-> "nan"], [k |-> "-inf"]                         *)
(*   [k |-> "raise", e]   the exception a call ended with                  *)
(* Arithmetic is exact rational arithmetic; binary64 rounding error is not *)
(* modelled.                                                               *)
(***************************************************************************)
EXTENDS Integers, Sequences, FiniteSets, TLC

----------------------------------------------------------------------------
(* Values *)

Abs(x) == IF x < 0 THEN -x ELSE x

RECURSIVE Gcd(_, _)
Gcd(a, b) == IF b = 0 THEN Abs(a) ELSE Gcd(b, a % b)

(* n/d + t * 1e-10: t counts ticks of 1e-10 on top of the rational part. *)
(* Ticks are only used next to bounds lying on a 1e-5 grid, with |t| far   *)
(* below 1e5, so that comparing the rational parts first is exact.         *)
NumT(n, d, t) ==
    LET s == IF d < 0 THEN -1 ELSE 1
        g == Gcd(Abs(n), Abs(d))
    IN  [k |-> "num", n |-> (s * n) \div g, d |-> (s * d) \div g, t |-> t]

Num(n, d) == NumT(n, d, 0)
PyInt(i) == NumT(i, 1, 0)
Tick(t) == NumT(0, 1, t)
Str(s) == [k |-> "str", s |-> s]
PyBool(b) == [k |-> "bool", b |-> b]
None == [k |-> "None"]
NaN == [k |-> "nan"]
NegInf == [k |-> "-inf"]
Raise(e) == [k |-> "raise", e |-> e]
PyList(items) == [k |-> "list", items |-> items]

IsNum(v) == v.k = "num"

(* the float i.0, where it has to be told apart from the int i *)
PyFloat(i) == [k |-> "float", n |-> i, d |-> 1, t |-> 0]

(* Python's ==: an int and a float of the same value are equal *)
PyEq(a, b) ==
    IF a.k \in {"num", "float"} /\ b.k \in {"num", "float"}
    THEN <<a.n, a.d, a.t>> = <<b.n, b.d, b.t>>
    ELSE a = b
IsRaise(v) == "k" \in DOMAIN v /\ v.k = "raise"
IsIntegral(v) == v.k = "num" /\ v.d = 1 /\ v.t = 0

(* exact arithmetic on "num" values; products are cross-cancelled first *)
RMul(a, b) ==
    LET g1 == Gcd(Abs(a.n), b.d)
        g2 == Gcd(Abs(b.n), a.d)
    IN  Num((a.n \div g1) * (b.n \div g2), (a.d \div g2) * (b.d \div g1))

RDiv(a, b) == RMul(a, Num(b.d, b.n))

RAdd(a, b) ==
    LET g == Gcd(a.d, b.d)
    IN  NumT(a.n * (b.d \div g) + b.n * (a.d \div g), (a.d \div g) * b.d, a.t + b.t)

RNeg(a) == [a EXCEPT !.n = -a.n, !.t = -a.t]
RSub(a, b) == RAdd(a, RNeg(b))
RSign(a) == IF a.n # 0 THEN a.n ELSE a.t
RLt(a, b) == RSign(RSub(a, b)) < 0
RLeq(a, b) == RSign(RSub(a, b)) <= 0
RAbs(a) == IF RSign(a) < 0 THEN RNeg(a) ELSE a

(* int(np.round(x, 0)): round half to even *)
RoundInt(a) ==
    LET f == a.n \div a.d
        r == a.n - f * a.d
    IN  IF 2 * r < a.d THEN f
        ELSE IF 2 * r > a.d THEN f + 1
        ELSE IF f % 2 = 0 THEN f ELSE f + 1

(* np.log and np.exp: ln of a positive number and exp of a plain number    *)
(* stay symbolic; exp(ln x) = x, ln(exp x) = x, ln 0 = -inf, exp(-inf) = 0,*)
(* ln of a negative number is nan (numpy warns, it does not raise).        *)
Log(v) ==
    CASE v.k = "num" /\ RSign(v) > 0 -> [v EXCEPT !.k = "ln"]
      [] v.k = "num" /\ RSign(v) = 0 -> NegInf
      [] v.k = "num" /\ RSign(v) < 0 -> NaN
      [] v.k = "exp" -> [v EXCEPT !.k = "num"]
      [] OTHER -> NaN

Exp(v) ==
    CASE v.k = "ln" -> [v EXCEPT !.k = "num"]
      [] v.k = "-inf" -> PyInt(0)
      [] v.k = "num" -> [v EXCEPT !.k = "exp"]
      [] OTHER -> NaN

IsNaN(v) == v.k = "nan"
IsFinite(v) == v.k \in {"num", "ln", "exp"}

----------------------------------------------------------------------------
(* hyperparameters.py: free functions *)

(* isinstance(value, float) or isinstance(value, int) *)
IsPyNumber(value) == value.k \in {"num", "float"}
(* isinstance(value, int): a number without fractional part stands for an int *)
IsPyInt(value) == IsIntegral(value)

ToleranceTicks == 1

is_legal_uniformfloat(value, upper, lower) ==
    IF ~IsPyNumber(value) THEN FALSE
    ELSE IF RLeq(value, upper) /\ RLeq(RSub(lower, Tick(ToleranceTicks)), value) THEN TRUE
    ELSE FALSE

is_legal_normalfloat(value) == IsPyNumber(value)

is_legal_uniforminteger(value, upper, lower) ==
    IF ~IsPyInt(value) THEN FALSE
    ELSE IF RLeq(value, upper) /\ RLeq(RSub(lower, Tick(ToleranceTicks)), value) THEN TRUE
    ELSE FALSE

is_legal_normalinteger(value) == IsPyInt(value)

(* np.round(float(default), 10): every number of the model has at most 10 decimals *)
check_default_uniformfloat(default, upper, lower, log) ==
    LET d0 == IF default = None
              THEN IF log THEN Exp(RDiv(RAdd(Log(lower), Log(upper)), PyInt(2)))
                   ELSE RDiv(RAdd(lower, upper), PyInt(2))
              ELSE default
    IN  IF is_legal_uniformfloat(d0, upper, lower) THEN d0 ELSE Raise("ValueError")

check_default_normalfloat(default, mu) ==
    IF default = None THEN mu
    ELSE IF is_legal_normalfloat(default) THEN default
    ELSE Raise("ValueError")

check_default_uniforminteger(default, upper, lower, log) ==
    LET d0 == IF default = None
              THEN IF log THEN Exp(RDiv(RAdd(Log(lower), Log(upper)), PyInt(2)))
                   ELSE RDiv(RAdd(lower, upper), PyInt(2))
              ELSE default
        d1 == PyInt(RoundInt(d0))
    IN  IF is_legal_uniforminteger(d1, upper, lower) THEN d1 ELSE Raise("ValueError")

check_default_normalinteger(default, mu) ==
    IF default = None THEN mu
    ELSE IF is_legal_normalinteger(default) THEN default
    ELSE Raise("ValueError")

(* abs(int(parameter) - parameter) > 1e-8 and type(parameter) is not int *)
check_int(parameter, name) ==
    IF ~IsIntegral(parameter) THEN Raise("ValueError") ELSE parameter

(* IntegerHyperparameter.check_int: the body is `pass`, the call yields None *)
IntegerHyperparameter_check_int(parameter, name) == None

----------------------------------------------------------------------------
(* hyperparameters.py: constructors *)

Constant(name, value) ==
    IF value.k \notin {"num", "str"} THEN Raise("TypeError")
    ELSE [kind |-> "Constant", name |-> name, value |-> value, default |-> value]

QSlack == Num(1, 10000)

UniformFloatHyperparameter(name, lower, upper, default, q, log) ==
    LET d0 == check_default_uniformfloat(default, upper, lower, log)
        wl == IF q # None THEN RSub(lower, RSub(RDiv(q, PyInt(2)), QSlack)) ELSE lower
        wu == IF q # None THEN RAdd(upper, RSub(RDiv(q, PyInt(2)), QSlack)) ELSE upper
    IN  IF ~RLt(lower, upper) THEN Raise("ValueError")
        ELSE IF log /\ RLeq(lower, PyInt(0)) THEN Raise("ValueError")
        ELSE IF IsRaise(d0) THEN d0
        ELSE [kind |-> "UniformFloat", name |-> name, lower |-> lower, upper |-> upper,
              q |-> q, log |-> log, default |-> d0,
              _lower |-> IF log THEN Log(wl) ELSE wl,
              _upper |-> IF log THEN Log(wu) ELSE wu]

NormalFloatHyperparameter(name, mu, sigma, default, q, log) ==
    LET d0 == check_default_normalfloat(default, mu)
    IN  IF IsRaise(d0) THEN d0
        ELSE [kind |-> "NormalFloat", name |-> name, mu |-> mu, sigma |-> sigma,
              q |-> q, log |-> log, default |-> d0]

IntWiden == Num(49999, 100000)

UniformIntegerHyperparameter(name, lower, upper, default, q, log) ==
    LET lo == check_int(lower, "lower")
        up == check_int(upper, "upper")
        df == IF default # None THEN check_int(default, name) ELSE None
        q0 == IF q # None
              THEN IF RLt(q, PyInt(1)) THEN None ELSE IntegerHyperparameter_check_int(q, "q")
              ELSE None
        d0 == check_default_uniforminteger(df, upper, lower, log)
        uf == UniformFloatHyperparameter(name, RSub(lo, IntWiden), RAdd(up, IntWiden),
                                         d0, q0, log)
    IN  IF IsRaise(lo) THEN lo
        ELSE IF IsRaise(up) THEN up
        ELSE IF IsRaise(df) THEN df
        ELSE IF ~RLt(lo, up) THEN Raise("ValueError")
        ELSE IF log /\ RLeq(lo, PyInt(0)) THEN Raise("ValueError")
        ELSE IF IsRaise(d0) THEN d0
        ELSE IF IsRaise(uf) THEN uf
        ELSE [kind |-> "UniformInteger", name |-> name, lower |-> lo, upper |-> up,
              q |-> q0, log |-> log, default |-> d0, ufhp |-> uf]

NormalIntegerHyperparameter(name, mu, sigma, default, q, log) ==
    LET df == IF default # None THEN check_int(default, name) ELSE None
        q0 == IF q # None
              THEN IF RLt(q, PyInt(1)) THEN None ELSE check_int(q, "q")
              ELSE None
        d0 == check_default_normalinteger(df, mu)
        nf == NormalFloatHyperparameter(name, mu, sigma, d0, q0, log)
    IN  IF IsRaise(df) THEN df
        ELSE IF IsRaise(q0) THEN q0
        ELSE IF IsRaise(d0) THEN d0
        ELSE IF IsRaise(nf) THEN nf
        ELSE [kind |-> "NormalInteger", name |-> name, mu |-> mu, sigma |-> sigma,
              q |-> q0, log |-> log, default |-> d0, nfhp |-> nf]

SeqContains(seq, v) == \E i \in 1..Len(seq) : PyEq(seq[i], v)

(* list.index(v): 0-based position of the first element equal to v *)
SeqIndex(seq, v) ==
    IF SeqContains(seq, v)
    THEN PyInt((CHOOSE i \in 1..Len(seq) :
                    PyEq(seq[i], v) /\ \A j \in 1..(i-1) : ~PyEq(seq[j], v)) - 1)
    ELSE Raise("ValueError")

(* seq[int(vector)] with Python's indexing: negative indices count from the end *)
PyGetItem(seq, i) ==
    IF i >= 0 /\ i < Len(seq) THEN seq[i + 1]
    ELSE IF i < 0 /\ -i <= Len(seq) THEN seq[Len(seq) + i + 1]
    ELSE Raise("IndexError")

Categorical_is_legal(self, value) == IF SeqContains(self.choices, value) THEN TRUE ELSE FALSE

Categorical_check_default(choices, default) ==
    IF default = None THEN PyGetItem(choices, 0)
    ELSE IF SeqContains(choices, default) THEN default
    ELSE Raise("ValueError")

CategoricalHyperparameter(name, choices, default) ==
    LET d0 == Categorical_check_default(choices, default)
    IN  IF IsRaise(d0) THEN d0
        ELSE [kind |-> "Categorical", name |-> name, choices |-> choices,
              _num_choices |-> Len(choices), default |-> d0]

Ordinal_is_legal(self, value) == SeqContains(self.sequence, value)

Ordinal_check_default(sequence, default) ==
    IF default = None THEN PyGetItem(sequence, 0)
    ELSE IF SeqContains(sequence, default) THEN default
    ELSE Raise("ValueError")

(* value_dict: element -> 1-based order; a repeated element keeps its last order *)
OrdinalHyperparameter(name, sequence, default) ==
    LET d0 == Ordinal_check_default(sequence, default)
    IN  IF IsRaise(d0) THEN d0
        ELSE [kind |-> "Ordinal", name |-> name, sequence |-> sequence,
              _num_elements |-> Len(sequence), default |-> d0]

----------------------------------------------------------------------------
(* hyperparameters.py: is_legal of each variant *)

Constant_is_legal(self, value) == PyBool(value = self.value)

(* FloatHyperparameter.is_legal and IntegerHyperparameter.is_legal: the body is *)
(* `pass`; UniformFloat and UniformInteger inherit it unchanged                 *)
FloatHyperparameter_is_legal(self, value) == None
IntegerHyperparameter_is_legal(self, value) == None

NormalFloat_is_legal(self, value) == IF IsPyNumber(value) THEN PyBool(TRUE) ELSE PyBool(FALSE)
NormalInteger_is_legal(self, value) == IF IsPyInt(value) THEN PyBool(TRUE) ELSE PyBool(FALSE)

is_legal(self, value) ==
    CASE self.kind = "Constant" -> Constant_is_legal(self, value)
      [] self.kind = "UniformFloat" -> FloatHyperparameter_is_legal(self, value)
      [] self.kind = "NormalFloat" -> NormalFloat_is_legal(self, value)
      [] self.kind = "UniformInteger" -> IntegerHyperparameter_is_legal(self, value)
      [] self.kind = "NormalInteger" -> NormalInteger_is_legal(self, value)
      [] self.kind = "Categorical" -> PyBool(Categorical_is_legal(self, value))
      [] self.kind = "Ordinal" -> PyBool(Ordinal_is_legal(self, value))

----------------------------------------------------------------------------
(* hyperparameters.py: _transform (vector -> value) and _inverse_transform *)

(* int(np.round(vector / q, 0)) * q *)
Quantize(vector, q) == RMul(PyInt(RoundInt(RDiv(vector, q))), q)

Constant_transform(self, vector) ==
    IF ~IsFinite(vector) THEN None ELSE self.value

(* mutant: the encoding of a Constant ignores its argument *)
Constant_inverse_transform_zero(self, vector) == PyInt(0)

Constant_inverse_transform(self, vector) ==
    IF vector # self.value THEN NaN ELSE PyInt(0)

UniformFloat_transform(self, vector) ==
    IF IsNaN(vector) THEN None
    ELSE LET v1 == RMul(vector, RSub(self._upper, self._lower))
             v2 == RAdd(v1, self._lower)
             v3 == IF self.log THEN Exp(v2) ELSE v2
         IN  IF self.q # None THEN Quantize(v3, self.q) ELSE v3

UniformFloat_inverse_transform(self, vector) ==
    IF vector = None THEN NaN
    ELSE LET v1 == IF self.log THEN Log(vector) ELSE vector
         IN  RDiv(RSub(v1, self._lower), RSub(self._upper, self._lower))

NormalFloat_transform(self, vector) ==
    IF IsNaN(vector) THEN None
    ELSE LET v1 == IF self.log THEN Exp(vector) ELSE vector
         IN  IF self.q # None THEN Quantize(v1, self.q) ELSE v1

NormalFloat_inverse_transform(self, vector) ==
    IF vector = None THEN NaN
    ELSE IF self.log THEN Log(vector) ELSE vector

UniformInteger_transform(self, vector) ==
    IF IsNaN(vector) THEN None
    ELSE LET v1 == UniformFloat_transform(self.ufhp, vector)
             v2 == IF self.q # None THEN Quantize(v1, self.q) ELSE v1
         IN  PyInt(RoundInt(v2))

UniformInteger_inverse_transform(self, vector) ==
    UniformFloat_inverse_transform(self.ufhp, vector)

NormalInteger_transform(self, vector) ==
    IF IsNaN(vector) THEN None
    ELSE PyInt(RoundInt(NormalFloat_transform(self.nfhp, vector)))

NormalInteger_inverse_transform(self, vector) ==
    NormalFloat_inverse_transform(self.nfhp, vector)

Categorical_transform(self, vector) ==
    IF ~IsFinite(vector) THEN None
    ELSE IF IsIntegral(vector) THEN PyGetItem(self.choices, vector.n)
    ELSE Raise("ValueError")

Categorical_inverse_transform(self, vector) ==
    IF vector = None THEN NaN ELSE SeqIndex(self.choices, vector)

Ordinal_transform(self, vector) ==
    IF IsNaN(vector) THEN None
    ELSE IF IsIntegral(vector) THEN PyGetItem(self.sequence, vector.n)
    ELSE Raise("ValueError")

Ordinal_inverse_transform(self, vector) ==
    IF vector = None THEN NaN ELSE SeqIndex(self.sequence, vector)

_transform(self, vector) ==
    CASE self.kind = "Constant" -> Constant_transform(self, vector)
      [] self.kind = "UniformFloat" -> UniformFloat_transform(self, vector)
      [] self.kind = "NormalFloat" -> NormalFloat_transform(self, vector)
      [] self.kind = "UniformInteger" -> UniformInteger_transform(self, vector)
      [] self.kind = "NormalInteger" -> NormalInteger_transform(self, vector)
      [] self.kind = "Categorical" -> Categorical_transform(self, vector)
      [] self.kind = "Ordinal" -> Ordinal_transform(self, vector)

_inverse_transform(self, vector) ==
    CASE self.kind = "Constant" -> Constant_inverse_transform(self, vector)
      [] self.kind = "UniformFloat" -> UniformFloat_inverse_transform(self, vector)
      [] self.kind = "NormalFloat" -> NormalFloat_inverse_transform(self, vector)
      [] self.kind = "UniformInteger" -> UniformInteger_inverse_transform(self, vector)
      [] self.kind = "NormalInteger" -> NormalInteger_inverse_transform(self, vector)
      [] self.kind = "Categorical" -> Categorical_inverse_transform(self, vector)
      [] self.kind = "Ordinal" -> Ordinal_inverse_transform(self, vector)

----------------------------------------------------------------------------
(* hyperparameters.py: get_neighbors of Categorical and Ordinal *)

(* int(value) *)
PyIntOf(value) ==
    CASE value.k = "num" -> PyInt(IF value.n >= 0 THEN value.n \div value.d
                                  ELSE -((-value.n) \div value.d))
      [] value.k = "str" -> Raise("ValueError")
      [] OTHER -> Raise("TypeError")

(* mutant: the inner loop accepts every drawn index *)
Categorical_rejected_never(index, neighbor_idx) == FALSE

(* the inner `while rejected` loop: a drawn index is rejected when it is the   *)
(* index of the original value                                                 *)
Categorical_rejected(index, neighbor_idx) == neighbor_idx = index

(* mutant: the sampling branch is also taken for number = len(self.choices) *)
Categorical_samples_upto(self, number) == number <= Len(self.choices)

(* `if number < len(self.choices)`: the sampling branch is taken *)
Categorical_samples(self, number) == number < Len(self.choices)

(* candidate = self._transform(idx) if transform else float(idx) *)
Categorical_candidate(self, idx, transform) ==
    IF transform THEN Categorical_transform(self, PyInt(idx)) ELSE PyInt(idx)

(* the else branch: every choice but the one at int(value), in sequence order *)
Categorical_enumerate(self, index, transform) ==
    LET idxs == SelectSeq([i \in 1..Len(self.choices) |-> i - 1], LAMBDA i : i # index)
    IN  [j \in 1..Len(idxs) |-> Categorical_candidate(self, idxs[j], transform)]

(* self.value_dict[value]: the 1-based order; a repeated element keeps the last *)
Ordinal_get_order(self, value) ==
    IF SeqContains(self.sequence, value)
    THEN CHOOSE i \in 1..Len(self.sequence) :
            self.sequence[i] = value /\ \A j \in (i+1)..Len(self.sequence) : self.sequence[j] # value
    ELSE 0

(* the key of value_dict whose order is idx *)
Ordinal_get_value(self, idx) ==
    CHOOSE e \in {self.sequence[i] : i \in 1..Len(self.sequence)} : Ordinal_get_order(self, e) = idx

Ordinal_check_order(self, val1, val2) ==
    IF Ordinal_get_order(self, val1) < Ordinal_get_order(self, val2) THEN TRUE ELSE FALSE

Ordinal_get_neighbors(self, value, number, transform) ==
    IF ~(number < Len(self.sequence)) THEN PyList(<<>>)
    ELSE IF ~SeqContains(self.sequence, value) THEN Raise("KeyError")
    ELSE LET index == Ordinal_get_order(self, value)
             neighbor_idx1 == index - 1
             neighbor_idx2 == index + 1
         IN  IF transform
             THEN PyList(
                  (IF neighbor_idx1 >= 1
                      /\ Ordinal_check_order(self, Ordinal_get_value(self, neighbor_idx1), value)
                   THEN <<Ordinal_get_value(self, neighbor_idx1)>> ELSE <<>>)
                  \o
                  (IF neighbor_idx2 <= self._num_elements
                      /\ Ordinal_check_order(self, value, Ordinal_get_value(self, neighbor_idx2))
                   THEN <<Ordinal_get_value(self, neighbor_idx2)>> ELSE <<>>))
             ELSE PyList(
                  (IF neighbor_idx1 < index /\ neighbor_idx1 >= 1
                   THEN <<PyInt(neighbor_idx1)>> ELSE <<>>)
                  \o
                  (IF neighbor_idx2 > index /\ neighbor_idx2 <= self._num_elements
                   THEN <<PyInt(neighbor_idx2)>> ELSE <<>>))

(* get_neighbors of the numeric variants, one pass of its loop at a time.  A    *)
(* pass yields [append, value]: whether a neighbour is appended and which, or   *)
(* the exception that ends the call.                                            *)

IterationCap == 100000

RMin(a, b) == IF RLt(b, a) THEN b ELSE a
RMax(a, b) == IF RLt(a, b) THEN b ELSE a

Pass(append, value) == [append |-> append, value |-> value]

(* `if neighbor < 0 or neighbor > 1: continue` *)
UniformFloat_out_of_range(neighbor) == RLt(neighbor, PyInt(0)) \/ RLt(PyInt(1), neighbor)

UniformFloat_neighbor(self, neighbor, transform) ==
    IF UniformFloat_out_of_range(neighbor) THEN Pass(FALSE, neighbor)
    ELSE IF transform THEN Pass(TRUE, UniformFloat_transform(self, neighbor))
    ELSE Pass(TRUE, neighbor)

(* `neighbors.append(rs.normal(value, self.sigma))`: transform is not read *)
NormalFloat_neighbor(self, neighbor, transform) == Pass(TRUE, neighbor)

(* np.min(1, draw) hands the draw to numpy as the axis of the reduction.  numpy *)
(* is outside the sources: the call raises TypeError, or yields the smaller of  *)
(* 1 and the draw as the code means it to.                                      *)
np_min_outcomes == {"TypeError", "minimum"}

(* `new_value = np.max((0, new_min_value))` *)
UniformInteger_new_value(draw) == RMax(PyInt(0), RMin(PyInt(1), draw))

(* `int_value != new_int_value` *)
UniformInteger_accepted(self, value, new_value) ==
    UniformInteger_transform(self, value) # UniformInteger_transform(self, new_value)

(* `elif iteration > 100000` *)
CapExceeded(iteration) == iteration > IterationCap

(* `iteration += 1` *)
NormalInteger_iteration(iteration) == iteration + 1

NormalInteger_accepted(self, value, new_value) ==
    NormalInteger_transform(self, value) # NormalInteger_transform(self, new_value)

(* The legal values of a hyperparameter: what its is_legal accepts; for the two *)
(* uniform variants, whose is_legal is the inherited stub, what the legality    *)
(* function used by their constructor accepts.                                  *)
IsLegalValue(h, v) ==
    CASE h.kind = "UniformFloat" -> is_legal_uniformfloat(v, h.upper, h.lower)
      [] h.kind = "UniformInteger" -> is_legal_uniforminteger(v, h.upper, h.lower)
      [] OTHER -> is_legal(h, v) = PyBool(TRUE)

----------------------------------------------------------------------------
(* The hyperparameters, values, vectors and random draws of the model *)

MaxChoices == 3
MaxUpper == 3
MaxValue == 4
SampleGrid == 8

Letter == <<"a", "b", "c", "d", "e", "f">>
Letters(k) == [i \in 1..k |-> Str(Letter[i])]
Numbers(k) == [i \in 1..k |-> PyInt(i)]

Quanta == {None, PyInt(2), PyInt(5)}

ConstantHPs == {Constant("k", Str("a")), Constant("k", PyInt(3))}

Categoricals ==
    {CategoricalHyperparameter("c", Letters(k), None) : k \in 1..MaxChoices}
    \cup {CategoricalHyperparameter("c", Numbers(k), None) : k \in 2..MaxChoices}

Ordinals ==
    {OrdinalHyperparameter("o", Numbers(k), None) : k \in 1..MaxChoices}
    \cup {OrdinalHyperparameter("o", Letters(k), None) : k \in 2..MaxChoices}

(* q of a construction: the quantization the caller asked for; the object's own *)
(* q field is what the constructor made of it                                   *)
Built(h, q) == [hp |-> h, q |-> q]

Constructions ==
    {Built(h, None) : h \in ConstantHPs \cup Categoricals \cup Ordinals}
    \cup {Built(UniformFloatHyperparameter("p", PyInt(lo), PyInt(up), None, q, FALSE), q) :
            lo \in {-1, 0}, up \in 1..MaxUpper, q \in {None, Num(1, 2), PyInt(2)}}
    \cup {Built(NormalFloatHyperparameter("n", PyInt(mu), PyInt(1), None, q, log), q) :
            mu \in {0, 1}, q \in {None, PyInt(2)}, log \in BOOLEAN}
    \cup {Built(UniformIntegerHyperparameter("i", PyInt(lo), PyInt(up), None, q, FALSE), q) :
            lo \in {0, 1}, up \in {MaxUpper, 100}, q \in Quanta}
    \cup {Built(NormalIntegerHyperparameter("m", PyInt(mu), PyInt(1), None, q, log), q) :
            mu \in {0, 1}, q \in {None, PyInt(2)}, log \in BOOLEAN}

Halves == {Num(i, 2) : i \in (-2 * MaxValue)..(2 * MaxValue)}
Integers100 == {PyInt(i) : i \in (-MaxValue)..MaxValue} \cup {PyInt(50), PyInt(99), PyInt(100)}
NearTicks == {0, 1, 2, 10, 99, 100, 101, 1000}

(* the values a caller may pass as `value` *)
Values(h) ==
    CASE h.kind = "Constant" -> {h.value, Str("z"), PyInt(0), None}
      [] h.kind = "UniformFloat" ->
            Halves \cup {RSub(h.lower, Tick(t)) : t \in NearTicks}
                   \cup {RAdd(h.upper, Tick(t)) : t \in NearTicks}
                   \cup {Str("z"), None}
      [] h.kind = "NormalFloat" -> Halves \cup {Str("z"), None}
      [] h.kind = "UniformInteger" -> Integers100 \cup {Num(1, 2), Str("z"), None}
      [] h.kind = "NormalInteger" -> Integers100 \cup {Num(1, 2), Str("z"), None}
      [] h.kind = "Categorical" ->
            {h.choices[i] : i \in 1..Len(h.choices)} \cup {Str("z"), PyInt(0), None}
      [] h.kind = "Ordinal" ->
            {h.sequence[i] : i \in 1..Len(h.sequence)} \cup {Str("z"), PyInt(0), None}

LegalValues(h) == {v \in Values(h) : IsLegalValue(h, v)}

(* the legal values that are encoded in the model: the arithmetic of the       *)
(* transforms is carried out on numbers without ticks                          *)
EncodableValues(h) == {v \in LegalValues(h) : v.k = "num" => v.t = 0}

(* rs.uniform(): a point of [0, 1) *)
UniformDraws == {Num(i, SampleGrid) : i \in 0..(SampleGrid - 1)}
(* rs.normal(mu, sigma): any real; for a log-scale variant the draw x is written ln(e^x) *)
NormalDraws(log) ==
    IF log THEN {Log(v) : v \in {w \in Halves : RSign(w) > 0}}
    ELSE Halves
(* rs.randint(0, k) *)
IndexDraws(k) == {PyInt(i) : i \in 0..(k - 1)}

(* the vector-domain values a caller may pass to _transform *)
Vectors(h) ==
    CASE h.kind = "Constant" -> {PyInt(0), NaN}
      [] h.kind \in {"UniformFloat", "UniformInteger"} -> UniformDraws \cup {PyInt(1), NaN}
      [] h.kind \in {"NormalFloat", "NormalInteger"} -> NormalDraws(h.log) \cup {NaN}
      [] h.kind = "Categorical" ->
            IndexDraws(Len(h.choices)) \cup {NaN, NegInf, Num(1, 2), PyInt(-1),
                                             PyInt(Len(h.choices))}
      [] h.kind = "Ordinal" ->
            IndexDraws(Len(h.sequence)) \cup {NaN, NegInf, Num(1, 2), PyInt(-1),
                                              PyInt(Len(h.sequence))}

(* _sample(rs) of each variant, for one draw of the random source *)
_sample(self, draw) ==
    CASE self.kind = "Constant" -> PyInt(0)
      [] self.kind \in {"UniformFloat", "NormalFloat", "Categorical", "Ordinal"} -> draw
      [] self.kind = "UniformInteger" ->
            UniformInteger_inverse_transform(self, UniformInteger_transform(self, draw))
      [] self.kind = "NormalInteger" ->
            NormalInteger_inverse_transform(self, NormalInteger_transform(self, draw))

Draws(h) ==
    CASE h.kind = "Constant" -> {None}
      [] h.kind \in {"UniformFloat", "UniformInteger"} -> UniformDraws
      [] h.kind \in {"NormalFloat", "NormalInteger"} -> NormalDraws(h.log)
      [] h.kind = "Categorical" -> IndexDraws(h._num_choices)
      [] h.kind = "Ordinal" -> IndexDraws(h._num_elements)

----------------------------------------------------------------------------
(* State.                                                                      *)
(*  hp        the hyperparameter the calls are made on; for a Configuration,   *)
(*            the hyperparameters of its space by name                         *)
(*  q_arg     the quantization its constructor was called with                 *)
(*  op, arg, res   the last call on hp, its argument and its result            *)
(*  prev      the value the call started from (the encoded value of a round    *)
(*            trip, the first decoding of a sampled vector)                    *)
(*  nb_pc, nb_call, neighbors   a get_neighbors call in progress: its position,*)
(*            its arguments and the list built so far                          *)
(*  nb_loop   the rejection loop of a numeric get_neighbors: its `iteration`,  *)
(*            the draws rejected for the neighbour in hand, and the accepted   *)
(*            draws as they are in the vector domain                           *)
(*  cfg, cop  the Configuration object (None when there is none) and the last  *)
(*            operation on it, with its arguments, its result and the object   *)
(*            as it was before                                                 *)
(*  stale     the value cache as it was before the last successful assignment  *)
(*  refs      the arrays the caller holds ("passed" to the constructor,        *)
(*            "returned" by get_array), each with whether it is the very array *)
(*            the Configuration stores                                         *)
(*  run       a read and an assignment on cfg that run statement by statement: *)
(*            whether the two are serialized, and the position and the local   *)
(*            variables of each                                                *)
VARIABLES hp, q_arg, op, arg, res, prev, nb_pc, nb_call, neighbors, nb_loop, cfg, cop, stale, refs,
          run

hpvars == <<hp, q_arg, op, arg, res, prev>>
nbvars == <<nb_pc, nb_call, neighbors, nb_loop>>
cfgvars == <<cfg, cop, stale, refs, run>>
vars == <<hpvars, nbvars, cfgvars>>

NoCall == [op |-> "init"]
NoWrite == [k |-> "nowrite"]
NoLoop == [iteration |-> 0, rejections |-> 0, raw |-> <<>>]
NoRefs == [r \in {} |-> FALSE]
NoRun == [atomic |-> TRUE]

InitCalls == op = "init" /\ arg = None /\ res = None /\ prev = None
InitNeighbors == nb_pc = "idle" /\ nb_call = None /\ neighbors = <<>> /\ nb_loop = NoLoop
InitConfiguration == cfg = None /\ cop = NoCall /\ stale = NoWrite /\ refs = NoRefs /\ run = NoRun

----------------------------------------------------------------------------
(* The collaborators of Configuration: the configuration space and c_util.     *)
(* The space of the model holds, in its canonical order, the Categorical "c"   *)
(* with choices a, b, c, the Ordinal "o" with sequence 1, 2, 3, which is       *)
(* active exactly when c = a, and the UniformFloat "p" on [0, 10].             *)

SpaceKeys == <<"c", "o", "p">>

SpaceItems(key) ==
    CASE key = "c" -> CategoricalHyperparameter("c", <<Str("a"), Str("b"), Str("c")>>, None)
      [] key = "o" -> OrdinalHyperparameter("o", <<PyInt(1), PyInt(2), PyInt(3)>>, None)
      [] key = "p" -> UniformFloatHyperparameter("p", PyInt(0), PyInt(10), None, None, FALSE)

(* a hyperparameter as the space holds it: with the vector of its default *)
SpaceItem(key) ==
    LET param == SpaceItems(key)
        fields == DOMAIN param \cup {"normalized_default_value"}
    IN  [f \in fields |->
            IF f = "normalized_default_value" THEN _inverse_transform(param, param.default)
            ELSE param[f]]

(* space[key]: the space is built once, when the model starts, and held in hp *)
SpaceHP(key) == hp[key]

InSpace(key) == \E i \in 1..Len(SpaceKeys) : SpaceKeys[i] = key

(* index_of[key], as a 1-based position *)
IndexOf(key) == CHOOSE i \in 1..Len(SpaceKeys) : SpaceKeys[i] = key

(* Hyperparameter.legal_value, to_vector and to_value, the names configuration.py *)
(* uses for the legality test, the encoding and the decoding                      *)
legal_value(param, value) == IsLegalValue(param, value)
to_vector(param, value) == _inverse_transform(param, value)
to_value(param, vector) == _transform(param, vector)

IsFloatHyperparameter(param) == param.kind \in {"UniformFloat", "NormalFloat"}

(* float(np.round(value, 16)): the numbers of the model have at most 10 decimals *)
Round16(value) == value

(* whether the conditions of the space make `key` active under `vector`: the   *)
(* condition of "o" is evaluated on the vector, where choice a of "c" is 0      *)
IsActive(vector, key) ==
    IF key = "o" THEN vector[IndexOf("c")] = PyInt(0) ELSE TRUE

(* c_util.check_configuration: None, or the error it raises *)
check_configuration(vector, allow_inactive_with_values) ==
    IF \E i \in 1..Len(SpaceKeys) : IsActive(vector, SpaceKeys[i]) /\ IsNaN(vector[i])
    THEN Raise("ValueError")
    ELSE IF /\ ~allow_inactive_with_values
            /\ \E i \in 1..Len(SpaceKeys) : ~IsActive(vector, SpaceKeys[i]) /\ ~IsNaN(vector[i])
    THEN Raise("ValueError")
    ELSE None

(* c_util.change_hp_value: the slot is written, then every hyperparameter that *)
(* depends on the written one is switched off (NaN) or on (its default)        *)
change_hp_value(vector, name, new_value, index) ==
    LET written == [vector EXCEPT ![index] = new_value]
    IN  [i \in 1..Len(written) |->
            IF SpaceKeys[i] = "o" /\ name = "c"
            THEN IF ~IsActive(written, "o") THEN NaN
                 ELSE IF IsNaN(written[i])
                      THEN SpaceHP("o").normalized_default_value
                      ELSE written[i]
            ELSE written[i]]

----------------------------------------------------------------------------
(* configuration.py: Configuration.  An object is                              *)
(* [_vector, _values, allow_inactive_with_values]; _values is None or a        *)
(* function from the cached keys to their values.  Every method yields the     *)
(* object after the call and the value returned or the exception raised.       *)

Outcome(self, result) == [self |-> self, result |-> result]

IllegalValueError(param, value) ==
    [k |-> "raise", e |-> "IllegalValueError", hp |-> param.name, value |-> value]

(* np.asarray(vector): the shape and the flattened data *)
PyArray(shape, data) == [shape |-> shape, data |-> data]

(* `any(unknown_keys)`: some unknown key is truthy, that is not the empty string *)
AnyUnknownKeys(values) == \E key \in DOMAIN values : ~InSpace(key) /\ key # ""

(* the first hyperparameter, in the order of the space, whose supplied value is *)
(* not legal: where the loop of __init__ raises; 0 when it runs to its end      *)
FirstIllegal(values) ==
    LET bad == {i \in 1..Len(SpaceKeys) :
                    /\ SpaceKeys[i] \in DOMAIN values
                    /\ ~legal_value(SpaceHP(SpaceKeys[i]), values[SpaceKeys[i]])}
    IN  IF bad = {} THEN 0 ELSE CHOOSE i \in bad : \A j \in bad : i <= j

(* the value written to the cache for a supplied value *)
CachedValue(param, value) == IF IsFloatHyperparameter(param) THEN Round16(value) ELSE value

Configuration_init_values(values, allow_inactive_with_values) ==
    IF AnyUnknownKeys(values) THEN Outcome(None, Raise("ValueError"))
    ELSE IF FirstIllegal(values) # 0
    THEN LET key == SpaceKeys[FirstIllegal(values)]
         IN  Outcome(None, IllegalValueError(SpaceHP(key), values[key]))
    ELSE LET set == {key \in DOMAIN values : InSpace(key)}
             _values == [key \in set |-> CachedValue(SpaceHP(key), values[key])]
             _vector == [i \in 1..Len(SpaceKeys) |->
                            IF SpaceKeys[i] \in set
                            THEN to_vector(SpaceHP(SpaceKeys[i]), _values[SpaceKeys[i]])
                            ELSE NaN]
             valid == check_configuration(_vector, allow_inactive_with_values)
         IN  IF IsRaise(valid) THEN Outcome(None, valid)
             ELSE Outcome([_vector |-> _vector, _values |-> _values,
                           allow_inactive_with_values |-> allow_inactive_with_values], None)

Configuration_init_vector(vector, allow_inactive_with_values) ==
    LET flat == IF Len(vector.shape) = 2 /\ vector.shape[2] = 1
                THEN PyArray(<<vector.shape[1]>>, vector.data)
                ELSE vector
    IN  IF Len(flat.shape) > 1 THEN Outcome(None, Raise("ValueError"))
        ELSE IF Len(flat.shape) = 0 THEN Outcome(None, Raise("TypeError"))
        ELSE IF flat.shape[1] # Len(SpaceKeys) THEN Outcome(None, Raise("ValueError"))
        ELSE Outcome([_vector |-> flat.data, _values |-> None,
                      allow_inactive_with_values |-> allow_inactive_with_values], None)

Configuration_init(values, vector, allow_inactive_with_values) ==
    IF (values # None /\ vector # None) \/ (values = None /\ vector = None)
    THEN Outcome(None, Raise("ValueError"))
    ELSE IF values # None
    THEN Configuration_init_values(values, allow_inactive_with_values)
    ELSE Configuration_init_vector(vector, allow_inactive_with_values)

(* mutant: the assignment does not test the value *)
SetItem_illegal_never(param, value) == FALSE

(* `if not param.legal_value(value)` *)
SetItem_illegal(param, value) == ~legal_value(param, value)

(* mutant: the new vector is stored before it is checked *)
SetItem_rejected_stored(self, new_array) == [self EXCEPT !._vector = new_array]

(* the object when check_configuration raises: nothing has been assigned yet *)
SetItem_rejected(self, new_array) == self

(* mutant: only the written key leaves the cache *)
SetItem_store_key(self, key, new_array) ==
    [self EXCEPT !._vector = new_array,
                 !._values = IF self._values = None THEN None
                             ELSE [c \in DOMAIN self._values \ {key} |-> self._values[c]]]

(* mutant: the assignment leaves the cache as it is *)
SetItem_clear_skipped(self) == self

(* `self._vector = new_array` *)
SetItem_assign(self, new_array) == [self EXCEPT !._vector = new_array]

(* `self._values = None` *)
SetItem_clear(self) == [self EXCEPT !._values = None]

(* `self._vector = new_array; self._values = None` *)
SetItem_store(self, key, new_array) == SetItem_clear(SetItem_assign(self, new_array))

Configuration_setitem(self, key, value) ==
    IF ~InSpace(key) THEN Outcome(self, Raise("KeyError"))
    ELSE LET param == SpaceHP(key)
             idx == IndexOf(key)
             vector_value == to_vector(param, value)
             new_array == change_hp_value(self._vector, param.name, vector_value, idx)
             valid == check_configuration(new_array, FALSE)
         IN  IF SetItem_illegal(param, value)
             THEN Outcome(self, IllegalValueError(param, value))
             ELSE IF IsRaise(valid) THEN Outcome(SetItem_rejected(self, new_array), valid)
             ELSE Outcome(SetItem_store(self, key, new_array), None)

(* mutant: a NaN slot is decoded like any other *)
GetItem_absent_never(vector) == FALSE

(* `if np.isnan(vector)`: the slot says the key is not present *)
GetItem_absent(vector) == IsNaN(vector)

Configuration_getitem(self, key) ==
    IF self._values # None /\ key \in DOMAIN self._values
    THEN Outcome(self, self._values[key])
    ELSE IF ~InSpace(key) THEN Outcome(self, Raise("KeyError"))
    ELSE LET vector == self._vector[IndexOf(key)]
             hyperparameter == SpaceHP(key)
             decoded == to_value(hyperparameter, vector)
             value == IF IsFloatHyperparameter(hyperparameter) THEN Round16(decoded)
                      ELSE decoded
             cache == IF self._values = None THEN [c \in {} |-> None] ELSE self._values
         IN  IF GetItem_absent(vector) THEN Outcome(self, Raise("KeyError"))
             ELSE Outcome([self EXCEPT !._values =
                                [c \in DOMAIN cache \cup {key} |->
                                    IF c = key THEN value ELSE cache[c]]],
                          value)

(* get_array: the stored vector itself *)
Configuration_get_array(self) == self._vector

(* whether the array get_array returns is the stored one: `return self._vector` *)
Get_array_shares == TRUE

(* whether the array passed as `vector` becomes the stored one: np.asarray      *)
(* returns its argument when that is a float64 ndarray already, and converts   *)
(* into a new array otherwise; flatten() of an (n, 1) array is a new array     *)
Init_shares(vector, float64) ==
    /\ float64
    /\ ~(Len(vector.shape) = 2 /\ vector.shape[2] = 1)

(* the caller's arrays after an assignment: `self._vector = new_array` stores  *)
(* an array made from a copy, so none of them is the stored one any more; an   *)
(* assignment that raises stores nothing                                       *)
SetItem_refs(held, result) ==
    IF IsRaise(result) THEN held ELSE [r \in DOMAIN held |-> FALSE]

(* the object after the caller wrote `value` into slot `index` of an array it  *)
(* holds                                                                       *)
Caller_write(self, shares, index, value) ==
    IF shares THEN [self EXCEPT !._vector[index] = value] ELSE self

(* __iter__: the keys of the space, in its order, whose slot is not NaN *)
Configuration_iter(self) ==
    SelectSeq(SpaceKeys, LAMBDA key : ~IsNaN(self._vector[IndexOf(key)]))

(* dict(self): every key that __iter__ yields with what __getitem__ returns *)
Configuration_dict(self) ==
    LET keys == Configuration_iter(self)
    IN  [key \in {keys[i] : i \in 1..Len(keys)} |-> Configuration_getitem(self, key).result]

(* dict == dict *)
DictEq(a, b) == DOMAIN a = DOMAIN b /\ \A key \in DOMAIN a : PyEq(a[key], b[key])

(* __eq__ of two Configurations of the one space of the model *)
Configuration_eq(self, other) == DictEq(Configuration_dict(self), Configuration_dict(other))

(* repr(value): 1 and 1.0 are written differently, equal texts are equal values *)
Repr(value) ==
    CASE value.k \in {"num", "float"} -> <<value.k, value.n, value.d, value.t>>
      [] value.k = "str" -> <<"str", value.s>>
      [] OTHER -> <<value.k>>

(* __repr__: one line per key, in the space's order of the keys, which is the  *)
(* sorted one                                                                  *)
Configuration_repr(self) ==
    LET values == Configuration_dict(self)
        keys == SelectSeq(SpaceKeys, LAMBDA key : key \in DOMAIN values)
    IN  [i \in 1..Len(keys) |-> <<keys[i], Repr(values[keys[i]])>>]

(* hash(str): equal for equal texts; texts that differ are taken to hash apart *)
Configuration_hash(self) == Configuration_repr(self)

(* the depth of nested calls at which the interpreter raises RecursionError *)
MaxDepth == 8

(* __contains__: False for an item that is not a string; for a string          *)
(* `return item in self`, which is __contains__ of the same object with the    *)
(* same item, one call deeper                                                  *)
RECURSIVE Configuration_contains(_, _, _)
Configuration_contains(self, item, depth) ==
    IF item.k # "str" THEN PyBool(FALSE)
    ELSE IF depth >= MaxDepth THEN Raise("RecursionError")
    ELSE Configuration_contains(self, item, depth + 1)

(* __len__: `return len(self.config_space)` *)
Configuration_len(self) == PyInt(Len(SpaceKeys))

----------------------------------------------------------------------------
(* Calls on one hyperparameter *)

Init ==
    /\ \E c \in Constructions : ~IsRaise(c.hp) /\ hp = c.hp /\ q_arg = c.q
    /\ InitCalls
    /\ InitNeighbors
    /\ InitConfiguration

CallIsLegal ==
    \E v \in Values(hp) :
        /\ op' = "is_legal"
        /\ arg' = v
        /\ res' = is_legal(hp, v)
        /\ prev' = None
        /\ UNCHANGED <<hp, q_arg, nbvars, cfgvars>>

CallTransform ==
    \E x \in Vectors(hp) :
        /\ op' = "_transform"
        /\ arg' = x
        /\ res' = _transform(hp, x)
        /\ prev' = None
        /\ UNCHANGED <<hp, q_arg, nbvars, cfgvars>>

CallInverseTransform ==
    \E v \in EncodableValues(hp) \cup {None} :
        /\ op' = "_inverse_transform"
        /\ arg' = v
        /\ res' = _inverse_transform(hp, v)
        /\ prev' = None
        /\ UNCHANGED <<hp, q_arg, nbvars, cfgvars>>

(* _transform(_inverse_transform(v)): decode the vector just produced *)
RoundTrip ==
    /\ op = "_inverse_transform"
    /\ arg # None
    /\ op' = "round_trip"
    /\ prev' = arg
    /\ arg' = res
    /\ res' = _transform(hp, res)
    /\ UNCHANGED <<hp, q_arg, nbvars, cfgvars>>

(* Hyperparameter.sample: vector = self._sample(rs); return self._transform(vector) *)
CallSample ==
    \E draw \in Draws(hp) :
        /\ op' = "sample"
        /\ arg' = _sample(hp, draw)
        /\ res' = _transform(hp, _sample(hp, draw))
        /\ prev' = None
        /\ UNCHANGED <<hp, q_arg, nbvars, cfgvars>>

(* decode the sampled vector a second time *)
DecodeAgain ==
    /\ op = "sample"
    /\ op' = "decode_again"
    /\ prev' = res
    /\ res' = _transform(hp, arg)
    /\ UNCHANGED <<hp, q_arg, arg, nbvars, cfgvars>>

Next ==
    \/ CallIsLegal
    \/ CallTransform
    \/ CallInverseTransform
    \/ RoundTrip
    \/ CallSample
    \/ DecodeAgain

Spec == Init /\ [][Next]_vars

----------------------------------------------------------------------------
(* get_neighbors of Categorical and Ordinal, one loop iteration per step *)

MaxCount == 5

NeighborArgs(h) ==
    CASE h.kind = "Categorical" ->
            IndexDraws(Len(h.choices)) \cup {h.choices[i] : i \in 1..Len(h.choices)}
      [] h.kind = "Ordinal" ->
            {h.sequence[i] : i \in 1..Len(h.sequence)} \cup {Str("z")}

InitNeighborsSpec ==
    /\ hp \in Categoricals \cup Ordinals
    /\ q_arg = None
    /\ InitCalls
    /\ InitNeighbors
    /\ InitConfiguration

(* CategoricalHyperparameter.get_neighbors up to its first random draw: the    *)
(* else branch runs to the end, the sampling branch enters its loop            *)
CategoricalGetNeighbors ==
    /\ hp.kind = "Categorical"
    /\ nb_pc \in {"idle", "done"}
    /\ \E value \in NeighborArgs(hp), number \in 0..MaxCount, transform \in BOOLEAN :
        LET index == PyIntOf(value)
        IN  /\ nb_call' = [value |-> value, number |-> number, transform |-> transform]
            /\ IF Categorical_samples(hp, number)
               THEN IF number = 0
                    THEN nb_pc' = "done" /\ neighbors' = <<>> /\ res' = PyList(<<>>)
                    ELSE IF IsRaise(index)
                    THEN nb_pc' = "done" /\ neighbors' = <<>> /\ res' = index
                    ELSE nb_pc' = "sampling" /\ neighbors' = <<>> /\ res' = None
               ELSE IF IsRaise(index)
                    THEN nb_pc' = "done" /\ neighbors' = <<>> /\ res' = index
                    ELSE /\ nb_pc' = "done"
                         /\ neighbors' = Categorical_enumerate(hp, index.n, transform)
                         /\ res' = PyList(neighbors')
            /\ op' = "get_neighbors"
            /\ UNCHANGED <<hp, q_arg, arg, prev, nb_loop, cfgvars>>

(* one pass of `while len(neighbors) < number` that appends: the inner loop    *)
(* ends with a draw that is not rejected; when the candidate is already in the *)
(* list the pass changes nothing                                               *)
CategoricalDraw ==
    /\ nb_pc = "sampling"
    /\ \E neighbor_idx \in 0..(hp._num_choices - 1) :
        LET candidate == Categorical_candidate(hp, neighbor_idx, nb_call.transform)
        IN  /\ ~Categorical_rejected(PyIntOf(nb_call.value).n, neighbor_idx)
            /\ ~SeqContains(neighbors, candidate)
            /\ neighbors' = Append(neighbors, candidate)
            /\ IF Len(neighbors') < nb_call.number
               THEN nb_pc' = "sampling" /\ res' = None
               ELSE nb_pc' = "done" /\ res' = PyList(neighbors')
    /\ UNCHANGED <<hp, q_arg, op, arg, prev, nb_call, nb_loop, cfgvars>>

OrdinalGetNeighbors ==
    /\ hp.kind = "Ordinal"
    /\ \E value \in NeighborArgs(hp), number \in 0..MaxCount, transform \in BOOLEAN :
        /\ nb_call' = [value |-> value, number |-> number, transform |-> transform]
        /\ res' = Ordinal_get_neighbors(hp, value, number, transform)
        /\ neighbors' = IF IsRaise(res') THEN <<>> ELSE res'.items
        /\ nb_pc' = "done"
        /\ op' = "get_neighbors"
    /\ UNCHANGED <<hp, q_arg, arg, prev, nb_loop, cfgvars>>

NextNeighbors ==
    \/ CategoricalGetNeighbors
    \/ CategoricalDraw
    \/ OrdinalGetNeighbors

SpecNeighbors == InitNeighborsSpec /\ [][NextNeighbors]_vars

----------------------------------------------------------------------------
(* SpecNumericNeighbors: get_neighbors of the four numeric variants.  The loop *)
(* of the call is taken one pass at a time, each pass with one draw of         *)
(* rs.normal.                                                                  *)

MaxNeighbors == 2

NumericKinds == {"UniformFloat", "NormalFloat", "UniformInteger", "NormalInteger"}
IntegerKinds == {"UniformInteger", "NormalInteger"}

NumericHPs ==
    {UniformFloatHyperparameter("p", PyInt(0), PyInt(MaxUpper), None, q, FALSE) :
        q \in {None, PyInt(2)}}
    \cup {NormalFloatHyperparameter("n", PyInt(0), PyInt(1), None, q, log) :
            q \in {None, PyInt(2)}, log \in BOOLEAN}
    \cup {UniformIntegerHyperparameter("i", PyInt(0), PyInt(MaxUpper), None, None, FALSE),
          NormalIntegerHyperparameter("m", PyInt(0), PyInt(1), None, None, FALSE)}

(* the vector-domain value the neighbours are asked of *)
NeighborValues(h) ==
    CASE h.kind = "UniformFloat" -> {Num(1, 4), Num(3, 4)}
      [] h.kind = "NormalFloat" -> IF h.log THEN {Log(PyInt(1))} ELSE {PyInt(0), PyInt(1)}
      [] h.kind = "UniformInteger" -> {Num(1, 4)}
      [] h.kind = "NormalInteger" -> {PyInt(0)}

(* the calls on an integer variant ask for one neighbour at most: each         *)
(* neighbour has a rejection loop of its own                                   *)
NeighborNumbers(h) == IF h.kind \in IntegerKinds THEN 0..1 ELSE 0..MaxNeighbors

(* rs.normal(value, sigma) *)
NeighborDraws(h) ==
    CASE h.kind \in {"UniformFloat", "UniformInteger"} ->
            {Num(-1, 4), Num(1, 4), Num(3, 4), Num(5, 4)}
      [] h.kind = "NormalFloat" ->
            IF h.log THEN {Log(PyInt(1)), Log(PyInt(2)), Log(Num(1, 2))}
            ELSE {PyInt(0), Num(1, 2), PyInt(1), PyInt(3)}
      [] h.kind = "NormalInteger" -> {PyInt(0), Num(1, 4), PyInt(1), PyInt(2)}

InitNumericNeighborsSpec ==
    /\ hp \in NumericHPs
    /\ q_arg = None
    /\ InitCalls
    /\ InitNeighbors
    /\ InitConfiguration

(* `neighbors = []` and the first test of the loop *)
NumericGetNeighbors ==
    /\ hp.kind \in NumericKinds
    /\ nb_pc \in {"idle", "done"}
    /\ \E value \in NeighborValues(hp), number \in NeighborNumbers(hp), transform \in BOOLEAN :
        /\ nb_call' = [value |-> value, number |-> number, transform |-> transform]
        /\ IF number = 0
           THEN nb_pc' = "done" /\ res' = PyList(<<>>)
           ELSE nb_pc' = "drawing" /\ res' = None
    /\ neighbors' = <<>>
    /\ nb_loop' = NoLoop
    /\ op' = "get_neighbors"
    /\ UNCHANGED <<hp, q_arg, arg, prev, cfgvars>>

(* the end of a pass that appends `appended` for the accepted draw `new_value` *)
Appended(appended, new_value) ==
    /\ neighbors' = Append(neighbors, appended)
    /\ nb_loop' = [iteration |-> 0, rejections |-> 0, raw |-> Append(nb_loop.raw, new_value)]
    /\ IF Len(neighbors') < nb_call.number
       THEN nb_pc' = "drawing" /\ res' = None
       ELSE nb_pc' = "done" /\ res' = PyList(neighbors')

(* the end of a pass whose draw is rejected; the passes of a loop that never  *)
(* ends are followed until one more than the cap have been rejected            *)
Rejected(iteration) ==
    /\ nb_loop.rejections <= IterationCap
    /\ nb_loop' = [nb_loop EXCEPT !.iteration = iteration, !.rejections = @ + 1]
    /\ UNCHANGED <<nb_pc, res, neighbors>>

(* the call ends with an exception, after `rejected` more rejected draws *)
Raised(e, rejected) ==
    /\ nb_pc' = "done"
    /\ res' = Raise(e)
    /\ nb_loop' = [nb_loop EXCEPT !.rejections = @ + rejected]
    /\ UNCHANGED neighbors

UniformFloatDraw ==
    /\ hp.kind = "UniformFloat"
    /\ nb_pc = "drawing"
    /\ \E neighbor \in NeighborDraws(hp) :
        \E pass \in {UniformFloat_neighbor(hp, neighbor, nb_call.transform)} :
            IF pass.append THEN Appended(pass.value, neighbor)
            ELSE UNCHANGED <<nb_pc, res, neighbors, nb_loop>>
    /\ UNCHANGED <<hp, q_arg, op, arg, prev, nb_call, cfgvars>>

NormalFloatDraw ==
    /\ hp.kind = "NormalFloat"
    /\ nb_pc = "drawing"
    /\ \E neighbor \in NeighborDraws(hp) :
        \E pass \in {NormalFloat_neighbor(hp, neighbor, nb_call.transform)} :
            Appended(pass.value, neighbor)
    /\ UNCHANGED <<hp, q_arg, op, arg, prev, nb_call, cfgvars>>

(* one pass of `while rejected` of UniformIntegerHyperparameter.get_neighbors: *)
(* `iteration` is set to 0 before the loop and not written in it               *)
UniformIntegerDraw ==
    /\ hp.kind = "UniformInteger"
    /\ nb_pc = "drawing"
    /\ \E draw \in NeighborDraws(hp), np_min \in np_min_outcomes :
        IF np_min = "TypeError" THEN /\ nb_loop.rejections = 0
                                     /\ Raised("TypeError", 0)
        ELSE \E new_value \in {UniformInteger_new_value(draw)} :
                IF UniformInteger_accepted(hp, nb_call.value, new_value)
                THEN Appended(IF nb_call.transform
                              THEN UniformInteger_transform(hp, new_value)
                              ELSE new_value, new_value)
                ELSE IF CapExceeded(nb_loop.iteration) THEN Raised("ValueError", 1)
                ELSE Rejected(nb_loop.iteration)
    /\ UNCHANGED <<hp, q_arg, op, arg, prev, nb_call, cfgvars>>

(* one pass of `while rejected` of NormalIntegerHyperparameter.get_neighbors *)
NormalIntegerDraw ==
    /\ hp.kind = "NormalInteger"
    /\ nb_pc = "drawing"
    /\ \E new_value \in NeighborDraws(hp) :
        \E iteration \in {NormalInteger_iteration(nb_loop.iteration)} :
            IF NormalInteger_accepted(hp, nb_call.value, new_value)
            THEN Appended(IF nb_call.transform
                          THEN NormalInteger_transform(hp, new_value)
                          ELSE new_value, new_value)
            ELSE IF CapExceeded(iteration) THEN Raised("ValueError", 1)
            ELSE Rejected(iteration)
    /\ UNCHANGED <<hp, q_arg, op, arg, prev, nb_call, cfgvars>>

NextNumericNeighbors ==
    \/ NumericGetNeighbors
    \/ UniformFloatDraw
    \/ NormalFloatDraw
    \/ UniformIntegerDraw
    \/ NormalIntegerDraw

SpecNumericNeighbors == InitNumericNeighborsSpec /\ [][NextNumericNeighbors]_vars

----------------------------------------------------------------------------
(* SpecConfiguration: a Configuration over the space is constructed, from a     *)
(* mapping or from a vector, and then read and assigned through its item        *)
(* access.                                                                      *)

UnknownKeys == {"zz", ""}

SuppliedValues(key) ==
    CASE key = "c" -> {Str("a"), Str("b"), Str("z")}
      [] key = "o" -> {PyInt(1), PyFloat(1), PyInt(3), PyInt(9)}
      [] key = "p" -> {PyInt(5), PyInt(11)}
      [] OTHER -> {PyInt(1)}

AllKeys == {SpaceKeys[i] : i \in 1..Len(SpaceKeys)} \cup UnknownKeys

(* conditions.NotSet: the marker of a key that the mapping does not hold *)
NotSet == [k |-> "NotSet"]

MappingOf(c, o, p, zz, empty) ==
    LET get == [key \in AllKeys |->
                    CASE key = "c" -> c
                      [] key = "o" -> o
                      [] key = "p" -> p
                      [] key = "zz" -> zz
                      [] OTHER -> empty]
    IN  [key \in {present \in AllKeys : get[present] # NotSet} |-> get[key]]

ValueMappings ==
    {MappingOf(c, o, p, zz, empty) :
        c \in SuppliedValues("c") \cup {NotSet},
        o \in SuppliedValues("o") \cup {NotSet},
        p \in SuppliedValues("p") \cup {NotSet},
        zz \in SuppliedValues("zz") \cup {NotSet},
        empty \in SuppliedValues("") \cup {NotSet}}

SlotValues(key) ==
    CASE key = "c" -> {NaN, PyInt(0), PyInt(1)}
      [] key = "o" -> {NaN, PyInt(0), PyInt(2)}
      [] key = "p" -> {NaN, Num(1, 2)}

SuppliedVectors ==
    {<<c, o, p>> : c \in SlotValues("c"), o \in SlotValues("o"), p \in SlotValues("p")}

SuppliedArrays ==
    {PyArray(<<Len(v)>>, v) : v \in SuppliedVectors}
    \cup {PyArray(<<Len(v), 1>>, v) : v \in SuppliedVectors}
    \cup {PyArray(<<1, Len(v)>>, v) : v \in SuppliedVectors}
    \cup {PyArray(<<>>, <<NaN>>), PyArray(<<2>>, <<NaN, NaN>>), PyArray(<<2, 1>>, <<NaN, NaN>>),
          PyArray(<<4>>, <<NaN, NaN, NaN, NaN>>), PyArray(<<3, 1, 1>>, <<NaN, NaN, NaN>>)}

ConstructInputs ==
    {[values |-> f, vector |-> None] : f \in ValueMappings}
    \cup {[values |-> None, vector |-> a] : a \in SuppliedArrays}
    \cup {[values |-> None, vector |-> None]}
    \cup {[values |-> f, vector |-> PyArray(<<3>>, <<PyInt(0), PyInt(0), Num(1, 2)>>)] :
            f \in {g \in ValueMappings : DOMAIN g \subseteq {"p"}}}

InitConfigurationSpec ==
    /\ hp = [key \in {SpaceKeys[i] : i \in 1..Len(SpaceKeys)} |-> SpaceItem(key)]
    /\ q_arg = None
    /\ InitCalls
    /\ InitNeighbors
    /\ InitConfiguration

Construct ==
    /\ cop = NoCall
    /\ \E in \in ConstructInputs, allow_inactive_with_values \in BOOLEAN :
        \E out \in {Configuration_init(in.values, in.vector, allow_inactive_with_values)} :
            /\ cfg' = out.self
            /\ cop' = [op |-> "construct", values |-> in.values, vector |-> in.vector,
                       allow_inactive_with_values |-> allow_inactive_with_values,
                       result |-> out.result]
            /\ \E float64 \in BOOLEAN :
                refs' = IF in.vector = None \/ out.self = None THEN NoRefs
                        ELSE [r \in {"passed"} |-> Init_shares(in.vector, float64)]
    /\ UNCHANGED <<stale, run, hpvars, nbvars>>

GetItem ==
    /\ cfg # None
    /\ \E key \in AllKeys :
        \E out \in {Configuration_getitem(cfg, key)} :
            /\ cfg' = out.self
            /\ cop' = [op |-> "getitem", key |-> key, value |-> None,
                       result |-> out.result, before |-> cfg]
    /\ UNCHANGED <<stale, refs, run, hpvars, nbvars>>

SetItem ==
    /\ cfg # None
    /\ \E key \in AllKeys :
        \E value \in SuppliedValues(key) :
            \E out \in {Configuration_setitem(cfg, key, value)} :
                /\ cfg' = out.self
                /\ cop' = [op |-> "setitem", key |-> key, value |-> value,
                           result |-> out.result, before |-> cfg]
                /\ stale' = IF IsRaise(out.result) THEN stale ELSE cfg._values
                /\ refs' = SetItem_refs(refs, out.result)
    /\ UNCHANGED <<run, hpvars, nbvars>>

NextConfiguration ==
    \/ Construct
    \/ GetItem
    \/ SetItem

SpecConfiguration == InitConfigurationSpec /\ [][NextConfiguration]_vars

----------------------------------------------------------------------------
(* Construction with a default: the constructor of a variant is called with    *)
(* `default` omitted or given, and is_legal is called with the default of the  *)
(* object it made.                                                             *)

DefaultArgs ==
    {None, PyInt(-2), PyInt(0), PyInt(1), PyInt(2), Num(1, 2), PyInt(MaxValue + 97), Str("a"), Str("z")}

Call(kind, args, default) == [kind |-> kind, args |-> args, default |-> default]

ConstructorCalls ==
    {Call("Constant", <<v>>, None) : v \in {Str("a"), PyInt(3)}}
    \cup {Call("UniformFloat", <<PyInt(lo), PyInt(up)>>, d) :
            lo \in {-1, 0}, up \in 1..MaxUpper, d \in DefaultArgs}
    \cup {Call("UniformInteger", <<PyInt(lo), PyInt(up)>>, d) :
            lo \in {0, 1}, up \in {MaxUpper, 100}, d \in DefaultArgs}
    \cup {Call("NormalFloat", <<mu, PyInt(1)>>, d) :
            mu \in {PyInt(0), Num(1, 2)}, d \in DefaultArgs}
    \cup {Call("NormalInteger", <<mu, PyInt(1)>>, d) :
            mu \in {PyInt(0), PyInt(1), Num(1, 2)}, d \in DefaultArgs}
    \cup {Call("Categorical", Letters(k), d) : k \in 1..MaxChoices, d \in DefaultArgs}
    \cup {Call("Categorical", Numbers(k), d) : k \in 2..MaxChoices, d \in DefaultArgs}
    \cup {Call("Ordinal", Numbers(k), d) : k \in 1..MaxChoices, d \in DefaultArgs}
    \cup {Call("Ordinal", Letters(k), d) : k \in 2..MaxChoices, d \in DefaultArgs}

(* the object a constructor call makes, or the error it raises *)
Constructed(call) ==
    CASE call.kind = "Constant" -> Constant("k", call.args[1])
      [] call.kind = "UniformFloat" ->
            UniformFloatHyperparameter("p", call.args[1], call.args[2], call.default, None, FALSE)
      [] call.kind = "UniformInteger" ->
            UniformIntegerHyperparameter("i", call.args[1], call.args[2], call.default, None, FALSE)
      [] call.kind = "NormalFloat" ->
            NormalFloatHyperparameter("n", call.args[1], call.args[2], call.default, None, FALSE)
      [] call.kind = "NormalInteger" ->
            NormalIntegerHyperparameter("m", call.args[1], call.args[2], call.default, None, FALSE)
      [] call.kind = "Categorical" -> CategoricalHyperparameter("c", call.args, call.default)
      [] call.kind = "Ordinal" -> OrdinalHyperparameter("o", call.args, call.default)

InitDefaults ==
    /\ hp = None
    /\ q_arg = None
    /\ InitCalls
    /\ InitNeighbors
    /\ InitConfiguration

ConstructHyperparameter ==
    /\ op = "init"
    /\ \E call \in ConstructorCalls :
        \E made \in {Constructed(call)} :
            /\ hp' = made
            /\ op' = "construct"
            /\ arg' = call.default
            /\ prev' = call
            /\ res' = IF IsRaise(made) THEN made ELSE None
    /\ UNCHANGED <<q_arg, nbvars, cfgvars>>

IsLegalOfDefault ==
    /\ op = "construct"
    /\ ~IsRaise(hp)
    /\ op' = "is_legal"
    /\ arg' = hp.default
    /\ res' = is_legal(hp, hp.default)
    /\ UNCHANGED <<hp, q_arg, prev, nbvars, cfgvars>>

NextDefaults ==
    \/ ConstructHyperparameter
    \/ IsLegalOfDefault

SpecDefaults == InitDefaults /\ [][NextDefaults]_vars

----------------------------------------------------------------------------
(* has_neighbors and get_num_neighbors of Constant, Categorical and Ordinal,   *)
(* called one after the other on one hyperparameter.                           *)

Constant_has_neighbors(self) == PyBool(FALSE)
Constant_get_num_neighbors(self, value) == PyInt(0)

Categorical_has_neighbors(self) == PyBool(Len(self.choices) > 1)
Categorical_get_num_neighbors(self, value) == PyInt(Len(self.choices) - 1)

Ordinal_has_neighbors(self) == PyBool(Len(self.sequence) > 1)
Ordinal_get_num_neighbors(self, value) ==
    IF PyEq(value, PyGetItem(self.sequence, 0)) \/ PyEq(value, PyGetItem(self.sequence, -1))
    THEN PyInt(1)
    ELSE PyInt(2)

has_neighbors(self) ==
    CASE self.kind = "Constant" -> Constant_has_neighbors(self)
      [] self.kind = "Categorical" -> Categorical_has_neighbors(self)
      [] self.kind = "Ordinal" -> Ordinal_has_neighbors(self)

get_num_neighbors(self, value) ==
    CASE self.kind = "Constant" -> Constant_get_num_neighbors(self, value)
      [] self.kind = "Categorical" -> Categorical_get_num_neighbors(self, value)
      [] self.kind = "Ordinal" -> Ordinal_get_num_neighbors(self, value)

InitNeighborCount ==
    /\ hp \in ConstantHPs \cup Categoricals \cup Ordinals
    /\ q_arg = None
    /\ InitCalls
    /\ InitNeighbors
    /\ InitConfiguration

(* prev keeps the answer of has_neighbors for the calls that follow *)
CallHasNeighbors ==
    /\ op = "init"
    /\ op' = "has_neighbors"
    /\ arg' = None
    /\ res' = has_neighbors(hp)
    /\ prev' = has_neighbors(hp)
    /\ UNCHANGED <<hp, q_arg, nbvars, cfgvars>>

CallGetNumNeighbors ==
    /\ op \in {"init", "has_neighbors"}
    /\ \E v \in Values(hp) :
        /\ op' = "get_num_neighbors"
        /\ arg' = v
        /\ res' = get_num_neighbors(hp, v)
    /\ UNCHANGED <<hp, q_arg, prev, nbvars, cfgvars>>

NextNeighborCount ==
    \/ CallHasNeighbors
    \/ CallGetNumNeighbors

SpecNeighborCount == InitNeighborCount /\ [][NextNeighborCount]_vars

----------------------------------------------------------------------------
(* _transform of the uniform variants and the object it is called with: a      *)
(* Python or numpy scalar, which no statement can change, or an ndarray, which *)
(* `vector *= ...` and `vector += ...` change in place.                        *)

(* the caller's object after UniformFloat._transform: the NaN test returns     *)
(* before any assignment; np.exp and the quantization make new objects         *)
UniformFloat_transform_vector(self, vector, ndarray) ==
    IF IsNaN(vector) \/ ~ndarray THEN vector
    ELSE RAdd(RMul(vector, RSub(self._upper, self._lower)), self._lower)

(* the caller's object after UniformInteger._transform, which hands it to      *)
(* self.ufhp._transform                                                        *)
UniformInteger_transform_vector(self, vector, ndarray) ==
    IF IsNaN(vector) THEN vector
    ELSE UniformFloat_transform_vector(self.ufhp, vector, ndarray)

_transform_vector(self, vector, ndarray) ==
    IF self.kind = "UniformFloat" THEN UniformFloat_transform_vector(self, vector, ndarray)
    ELSE UniformInteger_transform_vector(self, vector, ndarray)

InitInPlace ==
    /\ \E c \in Constructions :
        /\ ~IsRaise(c.hp)
        /\ c.hp.kind \in {"UniformFloat", "UniformInteger"}
        /\ hp = c.hp
        /\ q_arg = c.q
    /\ InitCalls
    /\ InitNeighbors
    /\ InitConfiguration

(* arg is the caller's object as the call left it, prev what it was called with *)
TransformObject ==
    /\ op = "init"
    /\ \E x \in Vectors(hp), ndarray \in BOOLEAN :
        /\ op' = "_transform"
        /\ res' = _transform(hp, x)
        /\ arg' = _transform_vector(hp, x, ndarray)
        /\ prev' = [before |-> x, ndarray |-> ndarray, first |-> NaN]
    /\ UNCHANGED <<hp, q_arg, nbvars, cfgvars>>

(* the second call on an array the first call changed is computed where the    *)
(* bounds of the unit-interval transform are whole numbers; the numbers of the *)
(* widened bounds leave the integers of the model after two scalings           *)
WholeBounds(self) == self.kind = "UniformFloat" /\ self.q = None

TransformObjectAgain ==
    /\ op = "_transform"
    /\ prev.ndarray => WholeBounds(hp)
    /\ op' = "_transform_again"
    /\ res' = _transform(hp, arg)
    /\ arg' = _transform_vector(hp, arg, prev.ndarray)
    /\ prev' = [prev EXCEPT !.first = res]
    /\ UNCHANGED <<hp, q_arg, nbvars, cfgvars>>

NextInPlace ==
    \/ TransformObject
    \/ TransformObjectAgain

SpecInPlace == InitInPlace /\ [][NextInPlace]_vars

----------------------------------------------------------------------------
(* A Configuration as a mapping: `item in config` and len(config), on an       *)
(* object that is constructed and assigned to.                                 *)

Items == {Str(key) : key \in AllKeys} \cup {PyInt(0), None}

Contains ==
    /\ cfg # None
    /\ \E item \in Items :
        \E result \in {Configuration_contains(cfg, item, 0)} :
            cop' = [op |-> "contains", key |-> item, value |-> None,
                    result |-> result, before |-> cfg]
    /\ UNCHANGED <<cfg, stale, refs, run, hpvars, nbvars>>

Length ==
    /\ cfg # None
    /\ cop' = [op |-> "len", key |-> None, value |-> None,
               result |-> Configuration_len(cfg), before |-> cfg]
    /\ UNCHANGED <<cfg, stale, refs, run, hpvars, nbvars>>

NextMapping ==
    \/ Construct
    \/ SetItem
    \/ Contains
    \/ Length

SpecMapping == InitConfigurationSpec /\ [][NextMapping]_vars

----------------------------------------------------------------------------
(* A Configuration and the caller's arrays: the Configuration is constructed   *)
(* and assigned to, get_array hands an array out, and the caller writes into   *)
(* an array it holds.                                                          *)

GetArray ==
    /\ cfg # None
    /\ cop' = [op |-> "get_array", key |-> None, value |-> None,
               result |-> PyList(Configuration_get_array(cfg)), before |-> cfg]
    /\ refs' = [r \in DOMAIN refs \cup {"returned"} |->
                    IF r = "returned" THEN Get_array_shares ELSE refs[r]]
    /\ UNCHANGED <<cfg, stale, run, hpvars, nbvars>>

CallerWrite ==
    /\ cfg # None
    /\ \E r \in DOMAIN refs, index \in 1..Len(SpaceKeys) :
        \E value \in SlotValues(SpaceKeys[index]) :
            /\ cfg' = Caller_write(cfg, refs[r], index, value)
            /\ cop' = [op |-> "caller_write", key |-> SpaceKeys[index], value |-> value,
                       result |-> None, before |-> cfg, ref |-> r]
    /\ UNCHANGED <<stale, refs, run, hpvars, nbvars>>

NextOwnership ==
    \/ Construct
    \/ SetItem
    \/ GetArray
    \/ CallerWrite

SpecOwnership == InitConfigurationSpec /\ [][NextOwnership]_vars

----------------------------------------------------------------------------
(* A read config[key] and an assignment config[key] = value on one             *)
(* Configuration, each run one statement at a time.  When run.atomic holds the *)
(* caller serializes the two: a call takes no step while the other is between  *)
(* its first and its last statement.                                           *)

NotRead == [k |-> "NotRead"]

Reader(pc, key, vector, value, result) ==
    [pc |-> pc, key |-> key, vector |-> vector, value |-> value, result |-> result]

Writer(pc, key, value, new_array, result) ==
    [pc |-> pc, key |-> key, value |-> value, new_array |-> new_array, result |-> result]

InCall(thread) == thread.pc \notin {"start", "done"}

RaceInputs ==
    {[values |-> f, vector |-> None] :
        f \in {g \in ValueMappings : DOMAIN g \cap UnknownKeys = {}}}
    \cup {[values |-> None, vector |-> PyArray(<<Len(v)>>, v)] : v \in SuppliedVectors}

InitRace ==
    /\ hp = [key \in {SpaceKeys[i] : i \in 1..Len(SpaceKeys)} |-> SpaceItem(key)]
    /\ q_arg = None
    /\ InitCalls
    /\ InitNeighbors
    /\ stale = NoWrite
    /\ refs = NoRefs
    /\ \E in \in RaceInputs :
        \E out \in {Configuration_init(in.values, in.vector, FALSE)} :
            /\ out.self # None
            /\ cfg = out.self
            /\ cop = [op |-> "construct", values |-> in.values, vector |-> in.vector,
                      allow_inactive_with_values |-> FALSE, result |-> out.result]
    /\ \E atomic \in BOOLEAN, key \in AllKeys, written \in {"c", "o", "p"} :
        \E value \in SuppliedValues(written) :
            run = [atomic |-> atomic,
                   rd |-> Reader("start", key, NotRead, NotRead, NotRead),
                   wr |-> Writer("start", written, value, NotRead, NotRead)]

ReadStep(next) ==
    /\ run.atomic => ~InCall(run.wr)
    /\ run' = [run EXCEPT !.rd = next]

WriteStep(next) ==
    /\ run.atomic => ~InCall(run.rd)
    /\ run' = [run EXCEPT !.wr = next]

(* `if self._values is not None and key in self._values: return self._values[key]` *)
ReadCache ==
    /\ run.rd.pc = "start"
    /\ IF cfg._values # None /\ run.rd.key \in DOMAIN cfg._values
       THEN ReadStep([run.rd EXCEPT !.pc = "done", !.result = cfg._values[run.rd.key]])
       ELSE ReadStep([run.rd EXCEPT !.pc = "known"])
    /\ UNCHANGED <<cfg, cop, stale, refs, hpvars, nbvars>>

(* `if key not in self.config_space: raise KeyError(key)` *)
ReadKnown ==
    /\ run.rd.pc = "known"
    /\ IF ~InSpace(run.rd.key)
       THEN ReadStep([run.rd EXCEPT !.pc = "done", !.result = Raise("KeyError")])
       ELSE ReadStep([run.rd EXCEPT !.pc = "vector"])
    /\ UNCHANGED <<cfg, cop, stale, refs, hpvars, nbvars>>

(* `vector = self._vector[item_idx]` *)
ReadVector ==
    /\ run.rd.pc = "vector"
    /\ ReadStep([run.rd EXCEPT !.pc = "isnan", !.vector = cfg._vector[IndexOf(run.rd.key)]])
    /\ UNCHANGED <<cfg, cop, stale, refs, hpvars, nbvars>>

(* `if np.isnan(vector): raise KeyError(key)` *)
ReadIsNaN ==
    /\ run.rd.pc = "isnan"
    /\ IF GetItem_absent(run.rd.vector)
       THEN ReadStep([run.rd EXCEPT !.pc = "done", !.result = Raise("KeyError")])
       ELSE ReadStep([run.rd EXCEPT !.pc = "to_value"])
    /\ UNCHANGED <<cfg, cop, stale, refs, hpvars, nbvars>>

(* `value = hyperparameter.to_value(vector)`, rounded for a float hyperparameter *)
ReadToValue ==
    /\ run.rd.pc = "to_value"
    /\ \E decoded \in {to_value(SpaceHP(run.rd.key), run.rd.vector)} :
        ReadStep([run.rd EXCEPT !.pc = "values",
                                !.value = IF IsFloatHyperparameter(SpaceHP(run.rd.key))
                                          THEN Round16(decoded) ELSE decoded])
    /\ UNCHANGED <<cfg, cop, stale, refs, hpvars, nbvars>>

(* `if self._values is None: self._values = {}` *)
ReadValues ==
    /\ run.rd.pc = "values"
    /\ ReadStep([run.rd EXCEPT !.pc = "store"])
    /\ cfg' = IF cfg._values = None THEN [cfg EXCEPT !._values = [c \in {} |-> None]] ELSE cfg
    /\ UNCHANGED <<cop, stale, refs, hpvars, nbvars>>

(* `self._values[key] = value; return value`: None has no item assignment *)
ReadStore ==
    /\ run.rd.pc = "store"
    /\ IF cfg._values = None
       THEN /\ ReadStep([run.rd EXCEPT !.pc = "done", !.result = Raise("TypeError")])
            /\ cfg' = cfg
       ELSE /\ ReadStep([run.rd EXCEPT !.pc = "done", !.result = run.rd.value])
            /\ cfg' = [cfg EXCEPT !._values =
                            [c \in DOMAIN cfg._values \cup {run.rd.key} |->
                                IF c = run.rd.key THEN run.rd.value ELSE cfg._values[c]]]
    /\ UNCHANGED <<cop, stale, refs, hpvars, nbvars>>

(* `if not param.legal_value(value): raise IllegalValueError(param, value)` *)
WriteLegal ==
    /\ run.wr.pc = "start"
    /\ IF SetItem_illegal(SpaceHP(run.wr.key), run.wr.value)
       THEN WriteStep([run.wr EXCEPT !.pc = "done",
                          !.result = IllegalValueError(SpaceHP(run.wr.key), run.wr.value)])
       ELSE WriteStep([run.wr EXCEPT !.pc = "new_array"])
    /\ UNCHANGED <<cfg, cop, stale, refs, hpvars, nbvars>>

(* `new_array = c_util.change_hp_value(..., self.get_array().copy(), ...)` *)
WriteNewArray ==
    /\ run.wr.pc = "new_array"
    /\ \E vector_value \in {to_vector(SpaceHP(run.wr.key), run.wr.value)} :
        WriteStep([run.wr EXCEPT !.pc = "check",
                      !.new_array = change_hp_value(Configuration_get_array(cfg),
                                                    run.wr.key, vector_value,
                                                    IndexOf(run.wr.key))])
    /\ UNCHANGED <<cfg, cop, stale, refs, hpvars, nbvars>>

(* `c_util.check_configuration(self.config_space, new_array, False)` *)
WriteCheck ==
    /\ run.wr.pc = "check"
    /\ \E valid \in {check_configuration(run.wr.new_array, FALSE)} :
        IF IsRaise(valid)
        THEN WriteStep([run.wr EXCEPT !.pc = "done", !.result = valid])
        ELSE WriteStep([run.wr EXCEPT !.pc = "assign"])
    /\ UNCHANGED <<cfg, cop, stale, refs, hpvars, nbvars>>

(* `self._vector = new_array` *)
WriteAssign ==
    /\ run.wr.pc = "assign"
    /\ WriteStep([run.wr EXCEPT !.pc = "clear"])
    /\ cfg' = SetItem_assign(cfg, run.wr.new_array)
    /\ UNCHANGED <<cop, stale, refs, hpvars, nbvars>>

(* `self._values = None` *)
WriteClear ==
    /\ run.wr.pc = "clear"
    /\ WriteStep([run.wr EXCEPT !.pc = "done", !.result = None])
    /\ cfg' = SetItem_clear(cfg)
    /\ UNCHANGED <<cop, stale, refs, hpvars, nbvars>>

NextRace ==
    \/ ReadCache
    \/ ReadKnown
    \/ ReadVector
    \/ ReadIsNaN
    \/ ReadToValue
    \/ ReadValues
    \/ ReadStore
    \/ WriteLegal
    \/ WriteNewArray
    \/ WriteCheck
    \/ WriteAssign
    \/ WriteClear

SpecRace == InitRace /\ [][NextRace]_vars

----------------------------------------------------------------------------
(* A Configuration of a space whose "p" may be quantized: the UniformFloat on  *)
(* [0, 10] without quantization, or with q = 2.                                *)

SpaceQuanta == {None, PyInt(2)}

QuantizedItem(key, q) ==
    LET param == IF key = "p"
                 THEN UniformFloatHyperparameter("p", PyInt(0), PyInt(10), None, q, FALSE)
                 ELSE SpaceItems(key)
        fields == DOMAIN param \cup {"normalized_default_value"}
    IN  [f \in fields |->
            IF f = "normalized_default_value" THEN _inverse_transform(param, param.default)
            ELSE param[f]]

InitCoherence ==
    /\ \E q \in SpaceQuanta :
        /\ hp = [key \in {SpaceKeys[i] : i \in 1..Len(SpaceKeys)} |-> QuantizedItem(key, q)]
        /\ q_arg = q
    /\ InitCalls
    /\ InitNeighbors
    /\ InitConfiguration

SpecCoherence == InitCoherence /\ [][NextConfiguration]_vars

----------------------------------------------------------------------------
(* Claims about single hyperparameters *)

ExactKinds == {"Constant", "Categorical", "Ordinal", "UniformInteger"}

(* C1: round trip. For every variant and every legal value v,                  *)
(* _transform(_inverse_transform(v)) reproduces v: exactly for Constant,       *)
(* Categorical, Ordinal and UniformInteger and for any variant without         *)
(* quantization, within one quantization step for a quantized variant.         *)
C1_RoundTrip ==
    op = "round_trip" =>
        IF hp.kind \in ExactKinds \/ hp.q = None THEN res = prev
        ELSE IsNum(res) /\ RLt(RAbs(RSub(res, prev)), hp.q)

(* C2: absence symmetry. For every variant, decoding a NaN vector entry yields *)
(* None and encoding None yields NaN.                                          *)
C2_AbsenceSymmetry ==
    /\ (op = "_transform" /\ IsNaN(arg)) => res = None
    /\ (op = "_inverse_transform" /\ arg = None) => res = NaN

C2_Witness ==
    /\ hp.kind = "Constant"
    /\ op = "_inverse_transform"
    /\ arg = None
    /\ res = NaN

SpecTolerance == Tick(100)

(* C3: bounds legality. For a UniformFloat, is_legal(v) on the hyperparameter  *)
(* is true for every number v with lower - 1e-8 <= v <= upper and false for    *)
(* every number further outside the bounds.                                    *)
C3_BoundsLegality ==
    (op = "is_legal" /\ hp.kind = "UniformFloat" /\ IsNum(arg)) =>
        res = PyBool(RLeq(RSub(hp.lower, SpecTolerance), arg) /\ RLeq(arg, hp.upper))

(* C4: quantization. For a UniformInteger constructed with a quantization step *)
(* q >= 1, every value obtained by sampling and decoding is a multiple of q,   *)
(* and decoding the sampled vector a second time yields the same integer.      *)
C4_Quantization ==
    (hp.kind = "UniformInteger" /\ q_arg # None /\ op \in {"sample", "decode_again"}) =>
        /\ IsIntegral(res)
        /\ res.n % q_arg.n = 0
        /\ op = "decode_again" => res = prev
----------------------------------------------------------------------------
(* Claims about get_neighbors of Categorical and Ordinal *)

Min(a, b) == IF a < b THEN a ELSE b
Distinct(seq) == \A i, j \in 1..Len(seq) : i # j => seq[i] # seq[j]
Elements(seq) == {seq[i] : i \in 1..Len(seq)}

CategoricalDone ==
    hp.kind = "Categorical" /\ op = "get_neighbors" /\ nb_pc = "done" /\ nb_call.transform

(* what C9 promises of a finished call whose original choice is `original` *)
ExhaustiveNeighbors(original) ==
    /\ res.k = "list"
    /\ Len(res.items) = Min(nb_call.number, Len(hp.choices) - 1)
    /\ Distinct(res.items)
    /\ Elements(res.items) \subseteq Elements(hp.choices) \ {original}
    /\ nb_call.number >= Len(hp.choices) - 1 =>
            Elements(res.items) = Elements(hp.choices) \ {original}

IsIndexOf(value, seq) == IsIntegral(value) /\ value.n >= 0 /\ value.n < Len(seq)

(* C9 as stated: called with the original choice as value, get_neighbors(value,*)
(* rng, count, transform=True) returns exactly min(count, k-1) choices,        *)
(* pairwise distinct and none equal to the original; all other choices when    *)
(* count >= k-1.                                                               *)
C9_CalledWithChoice ==
    (CategoricalDone /\ nb_call.value \in Elements(hp.choices)) =>
        ExhaustiveNeighbors(nb_call.value)

(* C9 amended: the same, when value is the 0-based index of the original       *)
(* choice (its vector-domain value).                                           *)
C9_CalledWithIndex ==
    (CategoricalDone /\ IsIndexOf(nb_call.value, hp.choices)) =>
        ExhaustiveNeighbors(hp.choices[nb_call.value.n + 1])

C9_Witness ==
    /\ CategoricalDone
    /\ hp.choices = Letters(3)
    /\ nb_call.value = PyInt(0)
    /\ nb_call.number = 5
    /\ res = PyList(<<Str("b"), Str("c")>>)

(* the immediate predecessor (when there is one) followed by the immediate     *)
(* successor (when there is one) of the element at 1-based position i          *)
AdjacentPositions(i, k) ==
    (IF i > 1 THEN <<i - 1>> ELSE <<>>) \o (IF i < k THEN <<i + 1>> ELSE <<>>)

(* C10: for an Ordinal with at least 2 elements and any legal value v,         *)
(* get_neighbors(v) returns for every requested count exactly v's immediate    *)
(* predecessor (if any) followed by its immediate successor (if any).  The     *)
(* result is accepted as elements, or with transform=False as their orders.    *)
C10_OrdinalNeighbors ==
    (/\ hp.kind = "Ordinal"
     /\ op = "get_neighbors"
     /\ Len(hp.sequence) >= 2
     /\ nb_call.value \in Elements(hp.sequence)) =>
        LET i == CHOOSE j \in 1..Len(hp.sequence) : hp.sequence[j] = nb_call.value
            adj == AdjacentPositions(i, Len(hp.sequence))
        IN  \/ res = PyList([j \in 1..Len(adj) |-> hp.sequence[adj[j]]])
            \/ ~nb_call.transform /\ res = PyList([j \in 1..Len(adj) |-> PyInt(adj[j])])

(* the position, from 1, of the original choice of the call *)
OriginalPosition == PyIntOf(nb_call.value).n + 1

CategoricalCalled ==
    hp.kind = "Categorical" /\ op = "get_neighbors" /\ IsIndexOf(nb_call.value, hp.choices)

(* C17 as stated: rejection sampling is used exactly when count < k-1; when    *)
(* count >= k-1 the result lists all other choices in sequence order, whatever *)
(* the random source draws.                                                    *)
C17_SamplesBelowOthers ==
    CategoricalCalled =>
        /\ nb_pc = "sampling" => nb_call.number < Len(hp.choices) - 1
        /\ (nb_pc = "done" /\ nb_call.number >= Len(hp.choices) - 1) =>
                neighbors = Categorical_enumerate(hp, OriginalPosition - 1, nb_call.transform)

(* C17 amended: rejection sampling is used exactly when 0 < count < k, also    *)
(* for count = k-1, where the result holds all other choices in the order they *)
(* were drawn; when count >= k the result lists all other choices in sequence  *)
(* order, whatever the random source draws.                                    *)
C17_SamplesBelowChoices ==
    CategoricalCalled =>
        /\ nb_pc = "sampling" => (0 < nb_call.number /\ nb_call.number < Len(hp.choices))
        /\ (0 < nb_call.number /\ nb_call.number < Len(hp.choices)) =>
                \/ nb_pc = "sampling" /\ Len(neighbors) < nb_call.number
                \/ nb_pc = "done" /\ Len(neighbors) = nb_call.number
        /\ (nb_pc = "done" /\ nb_call.number = Len(hp.choices) - 1) =>
                Elements(neighbors) = Elements(Categorical_enumerate(hp, OriginalPosition - 1,
                                                                     nb_call.transform))
        /\ (nb_pc = "done" /\ nb_call.number >= Len(hp.choices)) =>
                neighbors = Categorical_enumerate(hp, OriginalPosition - 1, nb_call.transform)

C17_Witness ==
    /\ CategoricalCalled
    /\ nb_pc = "done"
    /\ hp.choices = Letters(3)
    /\ nb_call = [value |-> PyInt(0), number |-> 2, transform |-> TRUE]
    /\ neighbors = <<Str("c"), Str("b")>>

(* C13: for an Ordinal with k elements, every element that                     *)
(* get_neighbors(value, transform=False) returns is a 0-based index in 0..k-1, *)
(* and its decoding is the element at the same position of the list that      *)
(* get_neighbors(value, transform=True) returns.                               *)
C13_OrdinalVectorNeighbors ==
    (/\ hp.kind = "Ordinal"
     /\ op = "get_neighbors"
     /\ ~nb_call.transform
     /\ ~IsRaise(res)) =>
        LET decoded == Ordinal_get_neighbors(hp, nb_call.value, nb_call.number, TRUE)
        IN  /\ ~IsRaise(decoded)
            /\ Len(decoded.items) = Len(res.items)
            /\ \A i \in 1..Len(res.items) :
                    /\ res.items[i] \in IndexDraws(Len(hp.sequence))
                    /\ Ordinal_transform(hp, res.items[i]) = decoded.items[i]

----------------------------------------------------------------------------
(* Claims about get_neighbors of the numeric variants *)

C12_TransformFlag ==
    (hp.kind \in NumericKinds /\ op = "get_neighbors" /\ nb_pc = "done" /\ ~IsRaise(res)) =>
        /\ Len(res.items) = Len(nb_loop.raw)
        /\ \A i \in 1..Len(res.items) :
                res.items[i] = IF nb_call.transform THEN _transform(hp, nb_loop.raw[i])
                               ELSE nb_loop.raw[i]

----------------------------------------------------------------------------
(* Claims about Configuration *)

FromMapping == cop.op = "construct" /\ cop.values # None /\ cop.vector = None

IllegalKeys(values) ==
    {key \in DOMAIN values : InSpace(key) /\ ~legal_value(SpaceHP(key), values[key])}

IllegalAssignment ==
    cop.op = "setitem" /\ InSpace(cop.key) /\ ~legal_value(SpaceHP(cop.key), cop.value)

(* C5, as stated: constructing a Configuration from a mapping that holds a     *)
(* value not legal for its hyperparameter, or assigning such a value to a key, *)
(* raises IllegalValueError naming the hyperparameter and the value, and       *)
(* nothing is stored.                                                          *)
C5_IllegalRaises ==
    /\ (FromMapping /\ IllegalKeys(cop.values) # {}) =>
            /\ cfg = None
            /\ \E key \in IllegalKeys(cop.values) :
                    cop.result = IllegalValueError(SpaceHP(key), cop.values[key])
    /\ IllegalAssignment =>
            /\ cop.result = IllegalValueError(SpaceHP(cop.key), cop.value)
            /\ cfg = cop.before

(* C5, amended: the same, for a mapping none of whose unknown keys is a        *)
(* non-empty string; the error names the first hyperparameter, in the order of *)
(* the space, whose value is illegal.  A mapping with an unknown non-empty key *)
(* raises the ValueError for unknown hyperparameters instead.                  *)
C5_IllegalRaisesAfterKeyCheck ==
    /\ (FromMapping /\ IllegalKeys(cop.values) # {}) =>
            /\ cfg = None
            /\ IF AnyUnknownKeys(cop.values)
               THEN cop.result = Raise("ValueError")
               ELSE \E key \in IllegalKeys(cop.values) :
                        /\ \A other \in IllegalKeys(cop.values) :
                                IndexOf(key) <= IndexOf(other)
                        /\ cop.result = IllegalValueError(SpaceHP(key), cop.values[key])
    /\ IllegalAssignment =>
            /\ cop.result = IllegalValueError(SpaceHP(cop.key), cop.value)
            /\ cfg = cop.before

C5_Witness ==
    /\ FromMapping
    /\ ~AnyUnknownKeys(cop.values)
    /\ IllegalKeys(cop.values) = {"c", "p"}
    /\ cop.result = IllegalValueError(SpaceHP("c"), Str("z"))
    /\ cfg = None

(* C6: an assignment that raises, for an unknown key, an illegal value or a    *)
(* vector that check_configuration rejects, leaves the vector and the cache of *)
(* the Configuration as they were.                                             *)
C6_FailedAssignmentKeepsState ==
    (cop.op = "setitem" /\ IsRaise(cop.result)) => cfg = cop.before

C6_Witness ==
    /\ cop.op = "setitem"
    /\ cop.key = "o"
    /\ legal_value(SpaceHP("o"), cop.value)
    /\ cop.result = Raise("ValueError")
    /\ cop.before._values # None
    /\ cfg = cop.before

Decoded(self, key) ==
    IF ~InSpace(key) \/ IsNaN(self._vector[IndexOf(key)]) THEN Raise("KeyError")
    ELSE to_value(SpaceHP(key), self._vector[IndexOf(key)])

(* C7: a successful assignment stores the vector change_hp_value returns and   *)
(* empties the cache; from then on every cached entry, and every value read,   *)
(* is the decoding of the current vector slot.                                 *)
C7_VectorIsTruth ==
    /\ (cop.op = "setitem" /\ ~IsRaise(cop.result)) =>
            /\ cfg._values = None
            /\ cfg._vector = change_hp_value(cop.before._vector, cop.key,
                                             to_vector(SpaceHP(cop.key), cop.value),
                                             IndexOf(cop.key))
    /\ (stale # NoWrite /\ cfg._values # None) =>
            \A key \in DOMAIN cfg._values : cfg._values[key] = Decoded(cfg, key)
    /\ (stale # NoWrite /\ cop.op = "getitem") => cop.result = Decoded(cfg, cop.key)

C7_Witness ==
    /\ cop.op = "getitem"
    /\ stale # NoWrite
    /\ stale # None
    /\ cop.key \in DOMAIN stale
    /\ cop.result # stale[cop.key]
    /\ cop.result = Decoded(cfg, cop.key)

Malformed ==
    /\ cop.op = "construct"
    /\ \/ cop.values # None /\ cop.vector # None
       \/ cop.values = None /\ cop.vector = None
       \/ cop.values # None /\ \E key \in DOMAIN cop.values : ~InSpace(key)
       \/ cop.vector # None /\ cop.vector.shape \notin {<<Len(SpaceKeys)>>, <<Len(SpaceKeys), 1>>}

(* C8: constructing a Configuration with both or neither of values and vector, *)
(* with a key the space does not know, or with a vector that is not of the     *)
(* length of the space in one dimension, raises an error and yields no         *)
(* Configuration.                                                              *)
C8_MalformedRejected == Malformed => (IsRaise(cop.result) /\ cfg = None)

(* a Configuration a caller can build beside the one in hand: from the vector  *)
(* of that one, or from a mapping of values                                    *)
OtherConfigurations ==
    {Configuration_init(None, PyArray(<<Len(cfg._vector)>>, Configuration_get_array(cfg)),
                        FALSE).self}
    \cup {Configuration_init(values, None, cfg.allow_inactive_with_values).self :
            values \in {f \in ValueMappings : DOMAIN f \cap UnknownKeys = {}}}

(* C14: two Configurations of one space that compare equal with == have equal  *)
(* hash values, whatever the numeric type of the values they were built from.  *)
C14_HashAgreesWithEq ==
    (cop.op = "construct" /\ cfg # None) =>
        \A other \in OtherConfigurations \ {None} :
            Configuration_eq(cfg, other) => Configuration_hash(cfg) = Configuration_hash(other)


(* a read of a key of the space whose slot was NaN when the read began *)
ReadOfAbsent ==
    /\ cop.op = "getitem"
    /\ InSpace(cop.key)
    /\ IsNaN(cop.before._vector[IndexOf(cop.key)])

(* C15: absent key on read. config[key], for a hyperparameter of the space     *)
(* whose vector slot is NaN, raises KeyError; it returns neither None nor a    *)
(* decoded value, leaves the stored vector as it was and adds no cache entry.  *)
C15_AbsentKeyRaises ==
    ReadOfAbsent =>
        /\ cop.result = Raise("KeyError")
        /\ cfg._vector = cop.before._vector
        /\ cfg._values = cop.before._values

(* the read of an absent key on an object whose cache holds other keys *)
C15_Witness ==
    /\ ReadOfAbsent
    /\ cop.before._values # None
    /\ DOMAIN cop.before._values # {}
    /\ cop.result = Raise("KeyError")


(* what the Configuration returns for every key of the space *)
Returned(self) == [key \in {SpaceKeys[i] : i \in 1..Len(SpaceKeys)} |->
                        Configuration_getitem(self, key).result]

(* C16: exclusive vector ownership. A write of the caller into the array it    *)
(* passed as `vector` to the constructor, or into the array get_array          *)
(* returned, changes neither the stored vector nor the values returned.        *)
C16_ExclusiveOwnership ==
    cop.op = "caller_write" =>
        /\ cfg._vector = cop.before._vector
        /\ Returned(cfg) = Returned(cop.before)


(* whether `value` belongs to the domain the constructor call describes *)
InDomain(call, value) ==
    CASE call.kind = "Constant" -> value = call.args[1]
      [] call.kind = "UniformFloat" ->
            IsNum(value) /\ RLeq(call.args[1], value) /\ RLeq(value, call.args[2])
      [] call.kind = "UniformInteger" ->
            /\ IsNum(value) /\ IsIntegral(value)
            /\ RLeq(call.args[1], value) /\ RLeq(value, call.args[2])
      [] call.kind = "NormalFloat" -> IsNum(value)
      [] call.kind = "NormalInteger" -> IsNum(value) /\ IsIntegral(value)
      [] call.kind \in {"Categorical", "Ordinal"} -> SeqContains(call.args, value)

(* the default an omitted `default` resolves to *)
ResolvedDefault(call) ==
    CASE call.kind = "Constant" -> call.args[1]
      [] call.kind \in {"UniformFloat", "UniformInteger"} ->
            RDiv(RAdd(call.args[1], call.args[2]), PyInt(2))
      [] call.kind \in {"NormalFloat", "NormalInteger"} -> call.args[1]
      [] call.kind \in {"Categorical", "Ordinal"} -> call.args[1]

(* is_legal(default) on the object a constructor made *)
C18_DefaultIsLegal ==
    (op = "is_legal" /\ prev # None) => res = PyBool(TRUE)

(* an omitted default resolves to the midpoint, to mu, to the first element *)
C18_OmittedDefault ==
    (op = "construct" /\ arg = None /\ ~IsRaise(hp)) =>
        IF prev.kind = "UniformInteger"
        THEN hp.default = PyInt(RoundInt(ResolvedDefault(prev)))
        ELSE hp.default = ResolvedDefault(prev)

(* a default outside the domain makes the construction fail *)
C18_IllegalDefaultFails ==
    (op = "construct" /\ arg # None /\ ~InDomain(prev, arg)) => IsRaise(hp)

(* C18: legal default. Every successfully constructed hyperparameter of any    *)
(* variant satisfies is_legal(default) on the constructed object (an omitted   *)
(* default resolves to the midpoint for uniform variants, to mu for normal     *)
(* variants, to the first element for Categorical and Ordinal), and            *)
(* construction with a default that is not legal fails with an error.          *)
C18_LegalDefault ==
    /\ C18_DefaultIsLegal
    /\ C18_OmittedDefault
    /\ C18_IllegalDefaultFails


(* the assignment has replaced the vector and cleared the cache, and the cache *)
(* holds for the key that was read the value the read decoded from a slot that *)
(* is no longer the slot of the vector                                         *)
StaleEntry ==
    /\ run.wr.pc = "done" /\ run.wr.result = None
    /\ run.rd.vector # NotRead
    /\ run.rd.vector # cfg._vector[IndexOf(run.rd.key)]
    /\ cfg._values # None
    /\ run.rd.key \in DOMAIN cfg._values
    /\ cfg._values[run.rd.key] = run.rd.value

(* C19: unsynchronized read/write race. When the read and the assignment are   *)
(* serialized, no state is reached in which, after the assignment has replaced *)
(* the vector and cleared the cache, the cache holds for the key read a value  *)
(* decoded from the superseded vector; when their statements interleave, such  *)
(* a state is reached (C19_Witness).                                           *)
C19_SerializedNeverStale == run.atomic => ~StaleEntry

(* the interleaved run that leaves the stale entry *)
C19_Witness == ~run.atomic /\ StaleEntry


(* every cached entry is the decoding of its slot of the vector *)
Coherent(self) ==
    self._values # None =>
        \A key \in DOMAIN self._values : PyEq(self._values[key], Decoded(self, key))

(* the Configuration built from the vector of `self` *)
FromOwnVector(self) ==
    Configuration_init(None, PyArray(<<Len(self._vector)>>, Configuration_get_array(self)),
                       self.allow_inactive_with_values).self

(* the part of C20 that holds for a space without quantization *)
C20_CoherentUnquantized == (q_arg = None /\ cfg # None) => Coherent(cfg)

(* C20: cache coherence. In every reachable state of a Configuration, after    *)
(* construction from a value mapping or from a vector and after any reads and  *)
(* successful or failed assignments, each cached entry equals the decoding of  *)
(* its slot of the current vector; so a Configuration built from a value       *)
(* mapping equals the Configuration built from its own vector.                 *)
C20_CacheCoherence ==
    cfg # None =>
        /\ Coherent(cfg)
        /\ FromMapping => Configuration_eq(cfg, FromOwnVector(cfg))


(* whether `item` is a string that names a hyperparameter whose slot is set *)
IsPresent(self, item) ==
    /\ item.k = "str"
    /\ InSpace(item.s)
    /\ ~IsNaN(self._vector[IndexOf(item.s)])

(* C21: membership terminates. `key in config` returns, for every key, True    *)
(* exactly when key is a string naming a hyperparameter of the space whose     *)
(* vector slot is not NaN, and False otherwise.                                *)
C21_MembershipTerminates ==
    cop.op = "contains" => cop.result = PyBool(IsPresent(cop.before, cop.key))

(* C22: length matches iteration. len(config) is the number of keys that       *)
(* iterating the Configuration yields, which is len(dict(config)), also when   *)
(* some hyperparameters are inactive.                                          *)
C22_LengthMatchesIteration ==
    cop.op = "len" =>
        /\ cop.result = PyInt(Len(Configuration_iter(cop.before)))
        /\ cop.result = PyInt(Cardinality(DOMAIN Configuration_dict(cop.before)))


(* the elements of a Categorical or an Ordinal *)
DomainOf(h) == IF h.kind = "Categorical" THEN h.choices ELSE h.sequence

(* C23: index domain of discrete decoding. _transform of a Categorical or an   *)
(* Ordinal returns a domain element only for a vector in 0..k-1; NaN decodes   *)
(* to absent, and every other input (non-integral, infinite, negative, or at   *)
(* least k) raises an error instead of returning a value.                      *)
C23_IndexDomain ==
    (op = "_transform" /\ hp.kind \in {"Categorical", "Ordinal"}) =>
        IF IsNaN(arg) THEN res = None
        ELSE IF IsNum(arg) /\ IsIntegral(arg) /\ arg.n \in 0..(Len(DomainOf(hp)) - 1)
        THEN res = DomainOf(hp)[arg.n + 1]
        ELSE IsRaise(res)


(* C24: neighbour-count consistency. For a Constant, a Categorical and an      *)
(* Ordinal, a single-element one included, has_neighbors() is true if and only *)
(* if get_num_neighbors(v) > 0, for every legal value v.                       *)
C24_NeighborCountConsistent ==
    (op = "get_num_neighbors" /\ prev # None /\ IsLegalValue(hp, arg)) =>
        (prev = PyBool(TRUE) <=> RLt(PyInt(0), res))

(* the part of C24 that holds: every Constant and every Categorical, and the   *)
(* Ordinals of two elements or more                                            *)
C24_ConsistentButSingleOrdinal ==
    (op = "get_num_neighbors" /\ prev # None /\ IsLegalValue(hp, arg)
        /\ ~(hp.kind = "Ordinal" /\ Len(hp.sequence) = 1)) =>
        (prev = PyBool(TRUE) <=> RLt(PyInt(0), res))


(* the caller's object holds what it held, and the second decoding of it gives *)
(* what the first gave                                                         *)
InputUnchanged ==
    /\ op = "_transform" => arg = prev.before
    /\ op = "_transform_again" => res = prev.first

(* C25: decoding leaves its input unchanged. _transform of UniformFloat and    *)
(* UniformInteger does not modify the vector object passed to it: after the    *)
(* call the caller's scalar or array holds the same numbers as before, and     *)
(* decoding the same object twice gives the same result.                       *)
C25_DecodingKeepsInput ==
    op \in {"_transform", "_transform_again"} => InputUnchanged

(* the part of C25 that holds: a scalar argument *)
C25_ScalarKeepsInput ==
    (op \in {"_transform", "_transform_again"} /\ ~prev.ndarray) => InputUnchanged

====
